---------------------------- MODULE Spec2Model ----------------------------
(***************************************************************************)
(* A model of ldsc's munge_sumstats: column resolution, schema validation, *)
(* the chunked filter pipeline, sample-size resolution, signed-statistic   *)
(* normalization, allele reconciliation and output.                        *)
(*                                                                         *)
(* Strings that the program inspects character by character (file headers, *)
(* option values naming headers, alleles) are sequences of one-character   *)
(* strings.  Numeric cells other than sample sizes are integers counted in *)
(* hundredths (P = 0.05 is 5, INFO = 0.9 is 90, OR = 1 is 100).            *)
(***************************************************************************)
EXTENDS Integers, Sequences, FiniteSets, TLC

VARIABLES
  args,                \* the configuration object (args.N_cas / args.N_con are set in daner mode)
  file_cnames,         \* the header line of --sumstats, in file order
  file_rows,           \* the data rows of --sumstats: raw header -> cell
  merge_file,          \* the rows of the --merge-alleles file: [SNP, A1, A2]
  pc,                  \* position of munge_sumstats
  err,                 \* the exception that ended the run, "" if none
  cname_map,           \* canonical label -> field (get_cname_map and the daner updates)
  cname_translation,   \* raw header -> field
  signed_sumstat_null, \* None or <<null value>>
  sign_cname,          \* name of the signed column, for messages
  merge_alleles,       \* None or the loaded panel: sequence of [SNP, MA]
  next_row,            \* first row of file_rows not yet read by the chunk iterator
  tot_snps,            \* parse_dat: rows read
  drops,               \* parse_dat: drop counters
  dat_list,            \* parse_dat: retained batches
  dat,                 \* the table: [cols, rows]
  out                  \* the table written to <out>.sumstats.gz: [cols, rows]

vars == <<args, file_cnames, file_rows, merge_file, pc, err, cname_map,
          cname_translation, signed_sumstat_null, sign_cname, merge_alleles,
          next_row, tot_snps, drops, dat_list, dat, out>>

----------------------------------------------------------------------------
(* Generic helpers for sequences, sets and dicts.                          *)

None == <<>>

Range(s) == {s[i] : i \in DOMAIN s}

Min2(a, b) == IF a <= b THEN a ELSE b

SetMax(S) == CHOOSE x \in S : \A y \in S : y <= x

RECURSIVE SumSeq(_)
SumSeq(s) == IF s = <<>> THEN 0 ELSE Head(s) + SumSeq(Tail(s))

RECURSIVE ConcatAll(_)
ConcatAll(ss) == IF ss = <<>> THEN <<>> ELSE Head(ss) \o ConcatAll(Tail(ss))

\* the sequence of f[s[i]]
MapSeq(s, Op(_)) == [i \in DOMAIN s |-> Op(s[i])]

\* a Python dict built from a sequence of <<key, value>> items: the last item
\* with a given key wins
DictOf(items) ==
  [k \in {items[i][1] : i \in DOMAIN items} |->
     items[SetMax({i \in DOMAIN items : items[i][1] = k})][2]]

\* d.update(e)
DictUpdate(d, e) ==
  [k \in DOMAIN d \cup DOMAIN e |-> IF k \in DOMAIN e THEN e[k] ELSE d[k]]

\* {k: d[k] for k in d if k in K}
DictRestrict(d, K) == [k \in DOMAIN d \cap K |-> d[k]]

\* list(d.values())
DictValues(d) == {d[k] : k \in DOMAIN d}

EmptyDict == [k \in {} |-> ""]

----------------------------------------------------------------------------
(* Strings.                                                                *)

LowerChars ==
  <<"a","b","c","d","e","f","g","h","i","j","k","l","m",
    "n","o","p","q","r","s","t","u","v","w","x","y","z">>

UpperChars ==
  <<"A","B","C","D","E","F","G","H","I","J","K","L","M",
    "N","O","P","Q","R","S","T","U","V","W","X","Y","Z">>

Digits == <<"0","1","2","3","4","5","6","7","8","9">>

\* str.upper(), one character
upper_char(c) ==
  IF \E i \in DOMAIN LowerChars : LowerChars[i] = c
  THEN UpperChars[CHOOSE i \in DOMAIN LowerChars : LowerChars[i] = c]
  ELSE c

\* str.upper()
str_upper(s) == [i \in DOMAIN s |-> upper_char(s[i])]

\* str.replace(a, b) for one-character a and b
str_replace(s, a, b) == [i \in DOMAIN s |-> IF s[i] = a THEN b ELSE s[i]]

\* str.replace(a, "") for a one-character a
str_remove(s, a) == SelectSeq(s, LAMBDA c : c # a)

\* str.startswith(prefix)
startswith(s, prefix) ==
  /\ Len(s) >= Len(prefix)
  /\ SubSeq(s, 1, Len(prefix)) = prefix

\* s[n:]
str_from(s, n) == SubSeq(s, n + 1, Len(s))

IsDigits(s) == s # <<>> /\ \A i \in DOMAIN s : \E d \in DOMAIN Digits : Digits[d] = s[i]

DigitVal(c) == (CHOOSE d \in DOMAIN Digits : Digits[d] = c) - 1

RECURSIVE ParseDigits(_)
ParseDigits(s) ==
  IF s = <<>> THEN 0
  ELSE 10 * ParseDigits(SubSeq(s, 1, Len(s) - 1)) + DigitVal(s[Len(s)])

clean_header_wrong_order(header) ==
  str_remove(str_replace(str_replace(str_upper(header), ".", "_"), "-", "."), "\n")

\* clean_header of sumstats_to_chisq.py:
\* header.upper().replace('-','_').replace('.','_')
clean_header_to_chisq(header) ==
  str_replace(str_replace(str_upper(header), "-", "_"), ".", "_")

\* header.upper().replace("-", "_").replace(".", "_").replace("\n", "")
clean_header(header) ==
  str_remove(str_replace(str_replace(str_upper(header), "-", "_"), ".", "_"), "\n")

----------------------------------------------------------------------------
(* Module-level tables.                                                    *)

null_values_wrong == [LOG_ODDS |-> 0, BETA |-> 0, OR |-> 0, Z |-> 0]

\* null_values, in hundredths
null_values == [LOG_ODDS |-> 0, BETA |-> 0, OR |-> 100, Z |-> 0]

default_cnames_items ==
  <<
    <<<<"S","N","P">>, "SNP">>,
    <<<<"M","A","R","K","E","R","N","A","M","E">>, "SNP">>,
    <<<<"S","N","P","I","D">>, "SNP">>,
    <<<<"R","S">>, "SNP">>,
    <<<<"R","S","I","D">>, "SNP">>,
    <<<<"R","S","_","N","U","M","B","E","R">>, "SNP">>,
    <<<<"R","S","_","N","U","M","B","E","R","S">>, "SNP">>,
    <<<<"N","S","T","U","D","Y">>, "NSTUDY">>,
    <<<<"N","_","S","T","U","D","Y">>, "NSTUDY">>,
    <<<<"N","S","T","U","D","I","E","S">>, "NSTUDY">>,
    <<<<"N","_","S","T","U","D","I","E","S">>, "NSTUDY">>,
    <<<<"P">>, "P">>,
    <<<<"P","V","A","L","U","E">>, "P">>,
    <<<<"P","_","V","A","L","U","E">>, "P">>,
    <<<<"P","V","A","L">>, "P">>,
    <<<<"P","_","V","A","L">>, "P">>,
    <<<<"G","C","_","P","V","A","L","U","E">>, "P">>,
    <<<<"A","1">>, "A1">>,
    <<<<"A","L","L","E","L","E","1">>, "A1">>,
    <<<<"A","L","L","E","L","E","_","1">>, "A1">>,
    <<<<"E","F","F","E","C","T","_","A","L","L","E","L","E">>, "A1">>,
    <<<<"R","E","F","E","R","E","N","C","E","_","A","L","L","E","L","E">>, "A1">>,
    <<<<"I","N","C","_","A","L","L","E","L","E">>, "A1">>,
    <<<<"E","A">>, "A1">>,
    <<<<"A","2">>, "A2">>,
    <<<<"A","L","L","E","L","E","2">>, "A2">>,
    <<<<"A","L","L","E","L","E","_","2">>, "A2">>,
    <<<<"O","T","H","E","R","_","A","L","L","E","L","E">>, "A2">>,
    <<<<"N","O","N","_","E","F","F","E","C","T","_","A","L","L","E","L","E">>, "A2">>,
    <<<<"D","E","C","_","A","L","L","E","L","E">>, "A2">>,
    <<<<"N","E","A">>, "A2">>,
    <<<<"N">>, "N">>,
    <<<<"N","C","A","S","E">>, "N_CAS">>,
    <<<<"C","A","S","E","S","_","N">>, "N_CAS">>,
    <<<<"N","_","C","A","S","E">>, "N_CAS">>,
    <<<<"N","_","C","A","S","E","S">>, "N_CAS">>,
    <<<<"N","_","C","O","N","T","R","O","L","S">>, "N_CON">>,
    <<<<"N","_","C","A","S">>, "N_CAS">>,
    <<<<"N","_","C","O","N">>, "N_CON">>,
    <<<<"N","_","C","A","S","E">>, "N_CAS">>,
    <<<<"N","C","O","N","T","R","O","L">>, "N_CON">>,
    <<<<"C","O","N","T","R","O","L","S","_","N">>, "N_CON">>,
    <<<<"N","_","C","O","N","T","R","O","L">>, "N_CON">>,
    <<<<"W","E","I","G","H","T">>, "N">>,
    <<<<"Z","S","C","O","R","E">>, "Z">>,
    <<<<"Z","-","S","C","O","R","E">>, "Z">>,
    <<<<"G","C","_","Z","S","C","O","R","E">>, "Z">>,
    <<<<"Z">>, "Z">>,
    <<<<"O","R">>, "OR">>,
    <<<<"B">>, "BETA">>,
    <<<<"B","E","T","A">>, "BETA">>,
    <<<<"L","O","G","_","O","D","D","S">>, "LOG_ODDS">>,
    <<<<"E","F","F","E","C","T","S">>, "BETA">>,
    <<<<"E","F","F","E","C","T">>, "BETA">>,
    <<<<"S","I","G","N","E","D","_","S","U","M","S","T","A","T">>, "SIGNED_SUMSTAT">>,
    <<<<"I","N","F","O">>, "INFO">>,
    <<<<"E","A","F">>, "FRQ">>,
    <<<<"F","R","Q">>, "FRQ">>,
    <<<<"M","A","F">>, "FRQ">>,
    <<<<"F","R","Q","_","U">>, "FRQ">>,
    <<<<"F","_","U">>, "FRQ">>
  >>

default_cnames == DictOf(default_cnames_items)

numeric_cols ==
  {"P", "N", "N_CAS", "N_CON", "Z", "OR", "BETA", "LOG_ODDS", "INFO", "FRQ",
   "SIGNED_SUMSTAT", "NSTUDY"}

----------------------------------------------------------------------------
(* Column resolution: parse_flag_cnames, get_cname_map and the head of     *)
(* munge_sumstats.                                                         *)

S_INFO == <<"I","N","F","O">>
S_FRQ_U_ == <<"F","R","Q","_","U","_">>
S_FRQ_A_ == <<"F","R","Q","_","A","_">>
S_Nca == <<"N","c","a">>
S_Nco == <<"N","c","o">>
S_SIGNED_SUMSTATS == <<"S","I","G","N","E","D","_","S","U","M","S","T","A","T","S">>

\* the exceptions that end a run
E_IndexError == "IndexError: list index out of range"
E_FloatError == "ValueError: could not convert string to float"
E_NoNca == "Could not find Nca column expected for daner-n format"
E_NoNco == "Could not find Nco column expected for daner-n format"
E_TooManySigned == "Too many signed sumstat columns. Specify which to ignore with the --ignore flag."
E_NoSigned == "Could not find a signed summary statistic column."
E_NoSNP == "Could not find SNP column."
E_NoP == "Could not find P column."
E_NoSignedSumstat == "Could not find SIGNED_SUMSTAT column."
E_DupHeader == "Found several columns of one name"
E_DupField == "Found several different columns of one field"
E_NoN == "Could not determine N."
E_NoAlleles == "Could not find A1/A2 columns."
E_NotNumeric == "Columns are expected to be numeric"
E_StrAccessor == "AttributeError: Can only use .str accessor with string values!"
E_NoObjects == "ValueError: No objects to concatenate"
E_NoSNPsRemain == "After applying filters, no SNPs remain."
E_CannotDetermineN == "Cannot determine N. This message indicates a bug."
E_Median == "WARNING: median value of the signed column is far from the null value."
E_NoA1Attribute == "AttributeError: 'DataFrame' object has no attribute 'A1'"
E_AllDiscordant == "All SNPs have alleles that do not match --merge-alleles."

cname_options(a) ==
  << <<a.nstudy, "NSTUDY">>, <<a.snp, "SNP">>, <<a.N_col, "N">>,
     <<a.N_cas_col, "N_CAS">>, <<a.N_con_col, "N_CON">>, <<a.a1, "A1">>,
     <<a.a2, "A2">>, <<a.p, "P">>, <<a.frq, "FRQ">>, <<a.info, "INFO">> >>

\* parse_flag_cnames: [flag_cnames, null_value].  args.info_list is the list
\* args.info_list.split(","), args.signed_sumstats the pair
\* args.signed_sumstats.split(",") with the null value already a number.
parse_flag_cnames(a) ==
  LET given == SelectSeq(cname_options(a), LAMBDA x : x[1] # None)
      opts == [i \in DOMAIN given |-> <<clean_header(given[i][1]), given[i][2]>>]
      infos == IF a.info_list # None
               THEN [i \in DOMAIN a.info_list |-> <<clean_header(a.info_list[i]), "INFO">>]
               ELSE <<>>
      signed == IF a.signed_sumstats # None
                THEN << <<clean_header(a.signed_sumstats[1]), "SIGNED_SUMSTAT">> >>
                ELSE <<>>
  IN [flag_cnames |-> DictOf(opts \o infos \o signed),
      null_value |-> IF a.signed_sumstats # None THEN <<a.signed_sumstats[2]>> ELSE None]

get_cname_map_default_first(flag, default, ignore) ==
  LET clean_ignore == {clean_header(x) : x \in Range(ignore)}
  IN DictUpdate(DictRestrict(flag, DOMAIN flag \ clean_ignore),
                DictRestrict(default, DOMAIN default \ clean_ignore))

\* get_cname_map
get_cname_map(flag, default, ignore) ==
  LET clean_ignore == {clean_header(x) : x \in Range(ignore)}
      cname_map0 == DictRestrict(flag, DOMAIN flag \ clean_ignore)
  IN DictUpdate(cname_map0,
                DictRestrict(default, DOMAIN default \ (clean_ignore \cup DOMAIN flag)))

\* ignore_cnames of munge_sumstats; args.ignore is the list args.ignore.split(",")
ignore_cnames(a) ==
  IF a.ignore # None THEN [i \in DOMAIN a.ignore |-> clean_header(a.ignore[i])] ELSE <<>>

\* mod_default_cnames of munge_sumstats
mod_default_cnames(a) ==
  IF a.signed_sumstats # None \/ a.a1_inc
  THEN DictRestrict(default_cnames,
                    {x \in DOMAIN default_cnames : default_cnames[x] \notin DOMAIN null_values})
  ELSE default_cnames

\* the --daner block: [err, N_cas, N_con, cname_map]
daner_block(a, fc, cm) ==
  LET frq_us == SelectSeq(fc, LAMBDA x : startswith(x, S_FRQ_U_))
      frq_as == SelectSeq(fc, LAMBDA x : startswith(x, S_FRQ_A_))
      fail(e) == [err |-> e, N_cas |-> a.N_cas, N_con |-> a.N_con, cname_map |-> cm]
  IN IF ~a.daner THEN fail("")
     ELSE IF frq_us = <<>> \/ frq_as = <<>> THEN fail(E_IndexError)
     ELSE LET frq_u == frq_us[1]
              frq_a == frq_as[1]
          IN IF ~IsDigits(str_from(frq_a, 6)) \/ ~IsDigits(str_from(frq_u, 6))
             THEN fail(E_FloatError)
             ELSE LET \* for c in [...]: for d in [x for x in cname_map if cname_map[x] == "c"]
                      kept == DictRestrict(cm, {x \in DOMAIN cm : cm[x] # "c"})
                  IN [err |-> "",
                      N_cas |-> ParseDigits(str_from(frq_a, 6)),
                      N_con |-> ParseDigits(str_from(frq_u, 6)),
                      cname_map |-> DictUpdate(kept, DictOf(<< <<frq_u, "FRQ">> >>))]

\* the --daner-n block: [err, cname_map]
daner_n_block(a, fc, cm) ==
  LET frq_us == SelectSeq(fc, LAMBDA x : startswith(x, S_FRQ_U_))
  IN IF ~a.daner_n THEN [err |-> "", cname_map |-> cm]
     ELSE IF frq_us = <<>>
     THEN [err |-> E_IndexError, cname_map |-> cm]
     ELSE IF S_Nca \notin Range(fc)
     THEN [err |-> E_NoNca, cname_map |-> cm]
     ELSE IF S_Nco \notin Range(fc)
     THEN [err |-> E_NoNco, cname_map |-> cm]
     ELSE [err |-> "",
           cname_map |->
             DictUpdate(cm, DictOf(<< <<frq_us[1], "FRQ">>,
                                      <<clean_header(S_Nca), "N_CAS">>,
                                      <<clean_header(S_Nco), "N_CON">> >>))]

\* cname_translation = {x: cname_map[clean_header(x)] for x in file_cnames if ...}
make_cname_translation(fc, cm) ==
  [x \in {h \in Range(fc) : clean_header(h) \in DOMAIN cm} |-> cm[clean_header(x)]]

----------------------------------------------------------------------------
(* The signed-statistic check and schema validation of munge_sumstats.     *)

\* sign_cnames
sign_cnames_of(tr) == {x \in DOMAIN tr : tr[x] \in DOMAIN null_values}

\* req_cols
req_cols(a) == IF ~a.a1_inc THEN <<"SNP", "P", "SIGNED_SUMSTAT">> ELSE <<"SNP", "P">>

\* for c in req_cols: if c not in cname_translation.values(): raise
missing_req_cols(a, tr) == SelectSeq(req_cols(a), LAMBDA c : c \notin DictValues(tr))

count_in(s, x) == Cardinality({i \in DOMAIN s : s[i] = x})

duplicated_header_unchecked(fc, tr) == FALSE

\* "check that aren't any duplicated column names in mapping"
duplicated_header(fc, tr) == \E field \in DOMAIN tr : count_in(fc, field) > 1

duplicated_field_unchecked(tr) == FALSE

\* "check multiple different column names don't map to same data field"
duplicated_field(tr) ==
  \E head \in DictValues(tr) : Cardinality({x \in DOMAIN tr : tr[x] = head}) > 1

cannot_determine_N_columns_only(a, tr) ==
  /\ "N" \notin DictValues(tr)
  /\ \E x \in {"N_CAS", "N_CON"} : x \notin DictValues(tr)

cannot_determine_N_either_count(a, tr) ==
  /\ a.N = 0
  /\ ~(a.N_cas # 0 \/ a.N_con # 0)
  /\ "N" \notin DictValues(tr)
  /\ \E x \in {"N_CAS", "N_CON"} : x \notin DictValues(tr)

\* the condition of E_NoN
cannot_determine_N(a, tr) ==
  /\ a.N = 0
  /\ ~(a.N_cas # 0 /\ a.N_con # 0)
  /\ "N" \notin DictValues(tr)
  /\ \E x \in {"N_CAS", "N_CON"} : x \notin DictValues(tr)

\* NSTUDY is deleted from cname_translation when N or N_CAS and N_CON are there
drop_nstudy(tr) ==
  IF /\ ("N" \in DictValues(tr) \/ \A x \in {"N_CAS", "N_CON"} : x \in DictValues(tr))
     /\ "NSTUDY" \in DictValues(tr)
  THEN DictRestrict(tr, {x \in DOMAIN tr : tr[x] # "NSTUDY"})
  ELSE tr

\* the condition of E_NoAlleles
missing_alleles(a, tr) ==
  ~a.no_alleles /\ ~(\A x \in {"A1", "A2"} : x \in DictValues(tr))

----------------------------------------------------------------------------
(* Cells and tables.  A cell is missing (NA), a number or a string; a row  *)
(* is a function from column name to cell; a table is [cols, rows] with    *)
(* cols the column names in order.                                         *)

NA == [k |-> "na"]
Num(x) == [k |-> "num", v |-> x]
Str(s) == [k |-> "str", v |-> s]

isnull(c) == c.k = "na"
IsNum(c) == c.k = "num"
IsStr(c) == c.k = "str"

\* keep the rows of a sequence whose index satisfies Keep
FilterIdx(rows, Keep(_)) ==
  LET F[i \in 0..Len(rows)] ==
        IF i = 0 THEN <<>>
        ELSE IF Keep(i) THEN Append(F[i - 1], rows[i]) ELSE F[i - 1]
  IN F[Len(rows)]

\* the columns of cols other than those in D, in order
DropCols(cols, D) == SelectSeq(cols, LAMBDA c : c \notin D)

\* a row without the columns in D
DropFields(row, D) == [c \in DOMAIN row \ D |-> row[c]]

EmptyTable == [cols |-> <<>>, rows |-> <<>>]

----------------------------------------------------------------------------
(* Inputs: configurations, headers and rows.                               *)

MaxExtra == 2
MaxRows == 2
MaxLen == 3

S(kind, name) == [kind |-> kind, name |-> name]

\* a well-formed file: SNP P A1 A2 N BETA
BaseHeader ==
  << S("SNP", <<"S","N","P">>), S("P", <<"P">>), S("A1", <<"A","1">>),
     S("A2", <<"A","2">>), S("N", <<"N">>), S("BETA", <<"B","E","T","A">>) >>

\* further columns a file may carry, alone or in pairs, each with the kind of
\* data it holds
ExtraHeaders ==
  << << S("BETA", <<"B","E","T","A">>) >>,
     << S("OR", <<"O","R">>) >>,
     << S("BETA", <<"Z","-","S","C","O","R","E">>) >>,
     << S("INFO", <<"i","n","f","o">>) >>,
     << S("INFO", <<"I","N","F","O","2">>) >>,
     << S("NSTUDY", <<"N","S","T","U","D","Y">>) >>,
     << S("FRQ", <<"F","R","Q","_","A","_","1","0">>),
        S("FRQ", <<"F","R","Q","_","U","_","2","0">>) >>,
     << S("N_CAS", <<"N","c","a">>), S("N_CON", <<"N","c","o">>) >>,
     << S("N_CAS", <<"N","_","C","A","S">>) >>,
     << S("N_CON", <<"N","_","C","O","N">>) >>,
     << S("SNP", <<"s","n","p">>) >> >>

\* the subsequences of s with at most n elements
SubSeqsUpTo(s, n) ==
  {FilterIdx(s, LAMBDA i : i \in I) :
     I \in {J \in SUBSET DOMAIN s : Cardinality(J) <= n}}

\* BaseHeader, whole or with one column left out
BaseVariants ==
  {BaseHeader} \cup
  {FilterIdx(BaseHeader, LAMBDA i : BaseHeader[i].kind # k) : k \in {"P", "A2", "N", "BETA"}}

ResolveHeaders ==
  {b \o ConcatAll(e) : b \in BaseVariants, e \in SubSeqsUpTo(ExtraHeaders, MaxExtra)}

DefaultArgs ==
  [ignore |-> None, nstudy |-> None, snp |-> None, N_col |-> None,
   N_cas_col |-> None, N_con_col |-> None, a1 |-> None, a2 |-> None, p |-> None,
   frq |-> None, info |-> None, info_list |-> None, signed_sumstats |-> None,
   a1_inc |-> FALSE, daner |-> FALSE, daner_n |-> FALSE,
   N |-> 0, N_cas |-> 0, N_con |-> 0, no_alleles |-> FALSE,
   merge_alleles |-> FALSE, keep_maf |-> FALSE,
   info_min |-> 90, maf_min |-> 1, n_min |-> 0, nstudy_min |-> 0,
   chunksize |-> 2]

ResolveArgs ==
  { DefaultArgs,
    [DefaultArgs EXCEPT !.ignore = << <<"o","r">> >>],
    [DefaultArgs EXCEPT !.ignore = << <<"Z","-","S","C","O","R","E">>, <<"s","n","p">> >>],
    [DefaultArgs EXCEPT !.ignore = << <<"I","N","F","O","2">> >>, !.info = <<"I","N","F","O","2">>],
    [DefaultArgs EXCEPT !.ignore = << <<"F","R","Q","_","U","_","2","0">> >>, !.daner = TRUE],
    [DefaultArgs EXCEPT !.daner = TRUE],
    [DefaultArgs EXCEPT !.daner_n = TRUE],
    [DefaultArgs EXCEPT !.a1 = <<"a","2">>, !.a2 = <<"a","1">>],
    [DefaultArgs EXCEPT !.snp = <<"s","n","p">>, !.ignore = << <<"S","N","P">> >>],
    [DefaultArgs EXCEPT !.N_col = <<"n","s","t","u","d","y">>],
    [DefaultArgs EXCEPT !.info_list = << <<"I","N","F","O">>, <<"I","N","F","O","2">> >>],
    [DefaultArgs EXCEPT !.signed_sumstats = << <<"B","E","T","A">>, 0 >>],
    [DefaultArgs EXCEPT !.signed_sumstats = << <<"z",".","s","c","o","r","e">>, 0 >>],
    [DefaultArgs EXCEPT !.a1_inc = TRUE],
    [DefaultArgs EXCEPT !.N = 1000],
    [DefaultArgs EXCEPT !.N_cas = 400, !.N_con = 600],
    [DefaultArgs EXCEPT !.N_cas = 400],
    [DefaultArgs EXCEPT !.no_alleles = TRUE],
    [DefaultArgs EXCEPT !.merge_alleles = TRUE, !.chunksize = 1] }


\* the cells of a row, by kind of data
RowA ==
  [SNP |-> Str("rs1"), P |-> Num(5), A1 |-> Str(<<"A">>), A2 |-> Str(<<"G">>),
   N |-> Num(1000), BETA |-> Num(-4), OR |-> Num(96), INFO |-> Num(95),
   FRQ |-> Num(30), NSTUDY |-> Num(3), N_CAS |-> Num(400), N_CON |-> Num(600)]

RowB ==
  [RowA EXCEPT !.SNP = Str("rs2"), !.P = Num(50), !.A1 = Str(<<"c">>), !.A2 = Str(<<"t">>),
               !.BETA = Num(6), !.OR = Num(106), !.FRQ = Num(80)]

\* the row of the file with header hs whose data are those of the row template t
FileRow(hs, t) ==
  [h \in {hs[i].name : i \in DOMAIN hs} |->
     t[hs[CHOOSE i \in DOMAIN hs : hs[i].name = h].kind]]

PanelAG == [SNP |-> "rs1", A1 |-> <<"A">>, A2 |-> <<"G">>]
PanelGA == [SNP |-> "rs1", A1 |-> <<"g">>, A2 |-> <<"a">>]
PanelCT == [SNP |-> "rs2", A1 |-> <<"C">>, A2 |-> <<"T">>]
PanelAC == [SNP |-> "rs2", A1 |-> <<"A">>, A2 |-> <<"C">>]
PanelX == [SNP |-> "rs9", A1 |-> <<"A">>, A2 |-> <<"G">>]

\* the files of the filter pipeline: SNP A1 A2 P N BETA <INFO> FRQ, the INFO
\* column under one of three names
PipelineHeader(info_name) ==
  << S("SNP", <<"S","N","P">>), S("A1", <<"A","1">>), S("A2", <<"A","2">>),
     S("P", <<"P">>), S("N", <<"N">>), S("BETA", <<"b","e","t","a">>),
     S("INFO", info_name), S("FRQ", <<"F","R","Q">>) >>

InfoNames == {<<"I","N","F","O">>, <<"i","n","f","o">>, <<"i","m","p","i","n","f","o">>}

PipelineArgs ==
  {[DefaultArgs EXCEPT !.info = <<"i","m","p","i","n","f","o">>,
                       !.keep_maf = x[1], !.merge_alleles = x[2], !.chunksize = x[3]] :
     x \in {<<FALSE, FALSE, 2>>, <<TRUE, FALSE, 1>>, <<FALSE, TRUE, 1>>, <<TRUE, TRUE, 2>>}}

\* rows that differ from RowA and RowB in one respect
PipelineRows ==
  { RowA, RowB,
    [RowA EXCEPT !.INFO = NA],
    [RowB EXCEPT !.P = NA],
    [RowA EXCEPT !.INFO = Num(50)],
    [RowB EXCEPT !.FRQ = Num(120)],
    [RowB EXCEPT !.P = Num(0)],
    [RowA EXCEPT !.A2 = Str(<<"T">>)],
    [RowA EXCEPT !.A1 = NA],
    [RowA EXCEPT !.SNP = Str("rs3"), !.N = Num(100)] }

\* the sequences over S of length at most n
SeqsUpTo(S_, n) == UNION {[1..m -> S_] : m \in 0..n}

\* the characters of header strings: a lower-case and an upper-case letter,
\* the separators and the newline
HeaderChars == {"r", "S", "-", ".", "_", "\n"}

\* the header strings of at most MaxLen characters
HeaderStrings == SeqsUpTo(HeaderChars, MaxLen)

\* headers that differ in the source of N
SampleHeader(kind) ==
  << S("SNP", <<"S","N","P">>), S("A1", <<"A","1">>), S("A2", <<"A","2">>), S("P", <<"P">>) >>
  \o (IF kind \in {"N", "OR"} THEN << S("N", <<"N">>) >>
      ELSE IF kind = "CC" THEN << S("N_CAS", <<"N","_","C","A","S">>), S("N_CON", <<"N","_","C","O","N">>) >>
      ELSE IF kind = "NSTUDY" THEN << S("NSTUDY", <<"N","S","T","U","D","Y">>) >>
      ELSE << >>)
  \o (IF kind = "OR" THEN << S("OR", <<"O","R">>) >> ELSE << S("BETA", <<"B","E","T","A">>) >>)

\* configurations of the sample-size resolver and of the sign normalizer
SampleConfigs ==
  { [kind |-> "N", args |-> DefaultArgs],
    [kind |-> "N", args |-> [DefaultArgs EXCEPT !.n_min = 500]],
    [kind |-> "N", args |-> [DefaultArgs EXCEPT !.a1_inc = TRUE]],
    [kind |-> "OR", args |-> DefaultArgs],
    [kind |-> "CC", args |-> DefaultArgs],
    [kind |-> "NSTUDY", args |-> [DefaultArgs EXCEPT !.N = 1000]],
    [kind |-> "FIXED", args |-> [DefaultArgs EXCEPT !.N_cas = 400, !.N_con = 600]] }

\* rows that differ in sample size and in signed statistic, and two further
\* rows of the SNP of RowA: one with P out of bounds, one with another effect
SampleRows ==
  { RowA,
    [RowB EXCEPT !.N_CAS = Num(500), !.N_CON = Num(500)],
    [RowA EXCEPT !.SNP = Str("rs3"), !.N = Num(100), !.N_CAS = Num(40), !.N_CON = Num(60),
                 !.NSTUDY = Num(1), !.BETA = Num(0), !.OR = Num(100)],
    [RowA EXCEPT !.SNP = Str("rs4"), !.N = Num(700), !.N_CAS = Num(300), !.N_CON = Num(400),
                 !.NSTUDY = Num(2), !.BETA = Num(50)],
    [RowB EXCEPT !.SNP = Str("rs5"), !.P = Num(100), !.BETA = Num(10)],
    [RowA EXCEPT !.SNP = Str("rs6"), !.N_CAS = Num(0), !.N_CON = Num(1000), !.BETA = Num(-30)],
    [RowA EXCEPT !.P = Num(0)],
    [RowA EXCEPT !.BETA = Num(20), !.OR = Num(120)] }

----------------------------------------------------------------------------
(* munge_sumstats, step by step.                                           *)

ZeroDrops == [NA |-> 0, P |-> 0, INFO |-> 0, FRQ |-> 0, A |-> 0, SNP |-> 0, MERGE |-> 0]

Names(hs) == [i \in DOMAIN hs |-> hs[i].name]

\* the state when munge_sumstats(args) is entered
Entry(a, hs, rows, panel) ==
  /\ args = a
  /\ file_cnames = Names(hs)
  /\ file_rows = rows
  /\ merge_file = panel
  /\ pc = "resolve"
  /\ err = ""
  /\ cname_map = EmptyDict
  /\ cname_translation = EmptyDict
  /\ signed_sumstat_null = None
  /\ sign_cname = None
  /\ merge_alleles = None
  /\ next_row = 1
  /\ tot_snps = 0
  /\ drops = ZeroDrops
  /\ dat_list = <<>>
  /\ dat = EmptyTable
  /\ out = EmptyTable

\* raise ValueError(e)
Raise(e) ==
  /\ pc' = "error"
  /\ err' = e

\* read_header .. cname_translation
ResolveColumns ==
  /\ pc = "resolve"
  /\ LET pf == parse_flag_cnames(args)
         cm == get_cname_map(pf.flag_cnames, mod_default_cnames(args), ignore_cnames(args))
         d == daner_block(args, file_cnames, cm)
         dn == daner_n_block(args, file_cnames, d.cname_map)
     IN IF d.err # ""
        THEN /\ Raise(d.err)
             /\ UNCHANGED <<args, cname_map, cname_translation, signed_sumstat_null>>
        ELSE IF dn.err # ""
        THEN /\ Raise(dn.err)
             /\ args' = [args EXCEPT !.N_cas = d.N_cas, !.N_con = d.N_con]
             /\ UNCHANGED <<cname_map, cname_translation, signed_sumstat_null>>
        ELSE /\ args' = [args EXCEPT !.N_cas = d.N_cas, !.N_con = d.N_con]
             /\ cname_map' = dn.cname_map
             /\ cname_translation' = make_cname_translation(file_cnames, dn.cname_map)
             /\ signed_sumstat_null' = pf.null_value
             /\ pc' = "sign"
             /\ err' = ""
  /\ UNCHANGED <<file_cnames, file_rows, merge_file, sign_cname, merge_alleles,
                 next_row, tot_snps, drops, dat_list, dat, out>>

\* if args.signed_sumstats is None and not args.a1_inc: ... else: ...
SignedSumstatCheck ==
  /\ pc = "sign"
  /\ IF args.signed_sumstats = None /\ ~args.a1_inc
     THEN LET sign_cnames == sign_cnames_of(cname_translation)
          IN IF Cardinality(sign_cnames) > 1
             THEN /\ Raise(E_TooManySigned)
                  /\ UNCHANGED <<cname_translation, signed_sumstat_null, sign_cname>>
             ELSE IF Cardinality(sign_cnames) = 0
             THEN /\ Raise(E_NoSigned)
                  /\ UNCHANGED <<cname_translation, signed_sumstat_null, sign_cname>>
             ELSE LET c == CHOOSE x \in sign_cnames : TRUE
                  IN /\ sign_cname' = c
                     /\ signed_sumstat_null' = <<null_values[cname_translation[c]]>>
                     /\ cname_translation' = [cname_translation EXCEPT ![c] = "SIGNED_SUMSTAT"]
                     /\ pc' = "validate"
                     /\ err' = ""
     ELSE /\ sign_cname' = S_SIGNED_SUMSTATS
          /\ pc' = "validate"
          /\ err' = ""
          /\ UNCHANGED <<cname_translation, signed_sumstat_null>>
  /\ UNCHANGED <<args, file_cnames, file_rows, merge_file, cname_map, merge_alleles,
                 next_row, tot_snps, drops, dat_list, dat, out>>

\* "check that we have all the columns we need" .. E_NoAlleles
ValidateSchema ==
  /\ pc = "validate"
  /\ LET missing == missing_req_cols(args, cname_translation)
     IN IF missing # <<>>
        THEN /\ Raise(IF missing[1] = "SNP" THEN E_NoSNP
                      ELSE IF missing[1] = "P" THEN E_NoP
                      ELSE E_NoSignedSumstat)
             /\ UNCHANGED cname_translation
        ELSE IF duplicated_header(file_cnames, cname_translation)
        THEN /\ Raise(E_DupHeader)
             /\ UNCHANGED cname_translation
        ELSE IF duplicated_field(cname_translation)
        THEN /\ Raise(E_DupField)
             /\ UNCHANGED cname_translation
        ELSE IF cannot_determine_N(args, cname_translation)
        THEN /\ Raise(E_NoN)
             /\ UNCHANGED cname_translation
        ELSE IF missing_alleles(args, drop_nstudy(cname_translation))
        THEN /\ Raise(E_NoAlleles)
             /\ cname_translation' = drop_nstudy(cname_translation)
        ELSE /\ cname_translation' = drop_nstudy(cname_translation)
             /\ pc' = "read_merge"
             /\ err' = ""
  /\ UNCHANGED <<args, file_cnames, file_rows, merge_file, cname_map,
                 signed_sumstat_null, sign_cname, merge_alleles,
                 next_row, tot_snps, drops, dat_list, dat, out>>

----------------------------------------------------------------------------
(* The filters of parse_dat.                                               *)

BASES == {"A", "C", "G", "T"}

COMPLEMENT == [b \in BASES |-> CASE b = "A" -> "T" [] b = "T" -> "A" [] b = "C" -> "G" [] b = "G" -> "C"]

\* sumstats.VALID_SNPS: the pairs of distinct bases that are not strand-ambiguous
VALID_SNPS == {x \in BASES \X BASES : x[1] # x[2] /\ x[2] # COMPLEMENT[x[1]]}

\* sumstats.MATCH_ALLELES: the same alleles, allowing for strand or reference flip
MATCH_ALLELES ==
  {x \in {s \o t : s \in VALID_SNPS, t \in VALID_SNPS} :
     \/ x[1] = x[3] /\ x[2] = x[4]
     \/ x[1] = COMPLEMENT[x[3]] /\ x[2] = COMPLEMENT[x[4]]
     \/ x[1] = x[4] /\ x[2] = x[3]
     \/ x[1] = COMPLEMENT[x[4]] /\ x[2] = COMPLEMENT[x[3]]}

\* filter_pvals, for one row
filter_pvals(P) == IsNum(P) /\ P.v > 0 /\ P.v <= 100

\* DataFrame.sum(axis=1): missing values are skipped
info_sum(info) == SumSeq([i \in DOMAIN info |-> IF IsNum(info[i]) THEN info[i].v ELSE 0])

\* filter_info, for one row; info is the list of the row's INFO cells
\* (one cell: the Series branch, several: the DataFrame branch)
filter_info(info, a) ==
  IF Len(info) = 1
  THEN IsNum(info[1]) /\ info[1].v >= a.info_min
  ELSE info_sum(info) >= a.info_min * Len(info)

filter_frq_unfolded(frq, a) ==
  /\ IsNum(frq)
  /\ frq.v > a.maf_min /\ frq.v <= 50

\* filter_frq, for one row
filter_frq(frq, a) ==
  /\ IsNum(frq)
  /\ LET jj == frq.v < 0 \/ frq.v > 100
         folded == Min2(frq.v, 100 - frq.v)
     IN folded > a.maf_min /\ ~jj

\* filter_alleles, for one row
filter_alleles(pair) == IsStr(pair) /\ pair.v \in VALID_SNPS

\* Series.str.upper()
cell_upper(c) == IF IsStr(c) THEN Str(str_upper(c.v)) ELSE NA

\* Series + Series on strings
cell_concat(c1, c2) == IF IsStr(c1) /\ IsStr(c2) THEN Str(c1.v \o c2.v) ELSE NA

\* [x for x in dat.columns if x != "INFO"]
na_subset(columns) == columns \ {S_INFO}

\* dat.dropna(axis=0, how="any", subset=...)
dropna(rows, subset) == SelectSeq(rows, LAMBDA r : \A x \in subset : ~isnull(r[x]))

\* dat.columns = [convert_colname[x] for x in dat.columns], for one row
rename_row(r, convert_colname) ==
  [f \in {convert_colname[x] : x \in DOMAIN r} |->
     r[CHOOSE x \in DOMAIN r : convert_colname[x] = f]]

\* the rows of one chunk: the next args.chunksize rows, columns usecols
read_chunk(rows, first, a, usecols) ==
  [i \in 1..(Min2(first + a.chunksize - 1, Len(rows)) - first + 1) |->
     DictRestrict(rows[first + i - 1], usecols)]

\* a row as parse_dat leaves it: INFO (and FRQ) dropped, alleles upper-cased
stored_row(row, a) ==
  LET kept == IF a.keep_maf THEN DOMAIN row \ {"INFO"} ELSE DOMAIN row \ {"INFO", "FRQ"}
  IN [c \in kept |-> IF c \in {"A1", "A2"} /\ ~a.no_alleles THEN cell_upper(row[c]) ELSE row[c]]

add_drops_twice(d, tag, old, new) == [d EXCEPT ![tag] = @ + 2 * (old - new)]

\* drops[tag] += old - new
add_drops(d, tag, old, new) == [d EXCEPT ![tag] = @ + (old - new)]

\* one iteration of the loop of parse_dat over the chunk raw:
\* [err, drops, kept], kept the batch appended to dat_list (None after "continue")
parse_chunk(raw, cols_raw, convert_colname, panel, a, drops0) ==
  LET dat1 == dropna(raw, na_subset(DOMAIN convert_colname))
      dropsNA == add_drops(drops0, "NA", Len(raw), Len(dat1))
      cols == [i \in DOMAIN cols_raw |-> convert_colname[cols_raw[i]]]
      rows1 == [i \in DOMAIN dat1 |-> rename_row(dat1[i], convert_colname)]
      wrong_types == {c \in Range(cols) \cap numeric_cols :
                        \E i \in DOMAIN raw : IsStr(rename_row(raw[i], convert_colname)[c])}
      in_panel == SelectSeq(rows1, LAMBDA r : IsStr(r["SNP"]) /\ r["SNP"].v \in {panel[j].SNP : j \in DOMAIN panel})
      dropsM == IF a.merge_alleles
                THEN add_drops(dropsNA, "MERGE", Len(rows1), Len(in_panel))
                ELSE dropsNA
      rows2 == IF a.merge_alleles THEN in_panel ELSE rows1
      ii0 == DOMAIN rows2
      hasINFO == "INFO" \in Range(cols)
      hasFRQ == "FRQ" \in Range(cols)
      ii1 == IF hasINFO
             THEN {i \in ii0 : filter_info(<<rows2[i]["INFO"]>>, a)}
             ELSE ii0
      ii2 == IF hasFRQ THEN {i \in ii1 : filter_frq(rows2[i]["FRQ"], a)} ELSE ii1
      ii3 == {i \in ii2 : filter_pvals(rows2[i]["P"])}
      ii4 == IF ~a.no_alleles
             THEN {i \in ii3 : filter_alleles(cell_concat(cell_upper(rows2[i]["A1"]),
                                                          cell_upper(rows2[i]["A2"])))}
             ELSE ii3
      dropsI == IF hasINFO
                THEN add_drops(dropsM, "INFO", Cardinality(ii0), Cardinality(ii1))
                ELSE dropsM
      dropsQ == IF hasFRQ
                THEN add_drops(dropsI, "FRQ", Cardinality(ii1), Cardinality(ii2))
                ELSE dropsI
      dropsP == add_drops(dropsQ, "P", Cardinality(ii2), Cardinality(ii3))
      dropsF == IF ~a.no_alleles
                THEN add_drops(dropsP, "A", Cardinality(ii3), Cardinality(ii4))
                ELSE dropsP
      \* dat.A1.str / dat.A2.str: read_csv infers the type of a column from the
      \* cells of the chunk, and a column with no string is not of strings
      no_str == \E c \in {"A1", "A2"} :
                  \A i \in DOMAIN raw : ~IsStr(rename_row(raw[i], convert_colname)[c])
      cols_kept == DropCols(cols, IF a.keep_maf THEN {"INFO"} ELSE {"INFO", "FRQ"})
      stored == [i \in DOMAIN rows2 |-> stored_row(rows2[i], a)]
  IN IF wrong_types # {}
     THEN [err |-> E_NotNumeric, drops |-> dropsNA, kept |-> None]
     ELSE IF a.merge_alleles /\ Len(in_panel) = 0
     THEN [err |-> "", drops |-> dropsM, kept |-> None]
     ELSE IF ~a.no_alleles /\ no_str
     THEN [err |-> E_StrAccessor, drops |-> dropsP, kept |-> None]
     ELSE IF ii4 = {}
     THEN [err |-> "", drops |-> dropsF, kept |-> None]
     ELSE [err |-> "", drops |-> dropsF,
           kept |-> << [cols |-> cols_kept,
                        rows |-> FilterIdx(stored, LAMBDA i : i \in ii4)] >>]

----------------------------------------------------------------------------
(* The stages after parse_dat.                                             *)

drop_duplicates_keep_all(rows) == rows

drop_duplicates_keep_last(rows) ==
  FilterIdx(rows, LAMBDA i : \A j \in (i + 1)..Len(rows) : rows[j]["SNP"] # rows[i]["SNP"])

\* dat.drop_duplicates(subset="SNP"): the first row of each SNP is kept
drop_duplicates(rows) ==
  FilterIdx(rows, LAMBDA i : \A j \in 1..(i - 1) : rows[j]["SNP"] # rows[i]["SNP"])

\* the sorted sequence of the numbers of a non-empty sequence
RECURSIVE sorted(_)
sorted(s) ==
  IF s = <<>> THEN <<>>
  ELSE LET i == CHOOSE j \in DOMAIN s : \A l \in DOMAIN s : s[j] <= s[l]
       IN <<s[i]>> \o sorted(FilterIdx(s, LAMBDA j : j # i))

\* ten times Series.quantile(0.9) (linear interpolation) of the numbers xs
quantile90_x10(xs) ==
  LET v == sorted(xs)
      n == Len(v)
      lo == (9 * (n - 1)) \div 10
      r == (9 * (n - 1)) % 10
  IN IF r = 0 THEN 10 * v[lo + 1] ELSE (10 - r) * v[lo + 1] + r * v[lo + 2]

\* N cells after the N_CAS / N_CON rescaling: a fraction n/d, or infinite
Rat(n, d) == [k |-> "rat", n |-> n, d |-> d]
Inf == [k |-> "inf"]

rescaled_N_first_anchor(rows) ==
  LET tot(i) == rows[i]["N_CAS"].v + rows[i]["N_CON"].v
      Nmax == SetMax({tot(i) : i \in DOMAIN rows})
      first == CHOOSE i \in DOMAIN rows : tot(i) = Nmax /\ \A j \in 1..(i - 1) : tot(j) # Nmax
      cas1 == rows[first]["N_CAS"].v
  IN [i \in DOMAIN rows |->
        IF tot(i) = 0 \/ Nmax = 0 THEN NA
        ELSE IF cas1 = 0 THEN (IF rows[i]["N_CAS"].v = 0 THEN NA ELSE Inf)
        ELSE Rat(rows[i]["N_CAS"].v * Nmax, cas1)]

\* the N_CAS / N_CON block of process_n: N = (N_CAS + N_CON) * P / mean(P[N == N.max()]),
\* P = N_CAS / (N_CAS + N_CON); the value of each row, in exact arithmetic
rescaled_N(rows) ==
  LET tot(i) == rows[i]["N_CAS"].v + rows[i]["N_CON"].v
      Nmax == SetMax({tot(i) : i \in DOMAIN rows})
      M == {i \in DOMAIN rows : tot(i) = Nmax}
      \* mean(P[N == N.max()]) = casM / (Cardinality(M) * Nmax)
      casM == SumSeq([i \in DOMAIN rows |-> IF i \in M THEN rows[i]["N_CAS"].v ELSE 0])
  IN [i \in DOMAIN rows |->
        IF tot(i) = 0 \/ Nmax = 0 THEN NA
        ELSE IF casM = 0 THEN (IF rows[i]["N_CAS"].v = 0 THEN NA ELSE Inf)
        ELSE Rat(rows[i]["N_CAS"].v * Cardinality(M) * Nmax, casM)]

\* numerator of an N cell over the denominator den
NumOver(c, den) == IF c.k = "rat" THEN c.n * (den \div c.d) ELSE c.v * den

n_filter_no_divisor(rows, a) ==
  LET finite == {i \in DOMAIN rows : rows[i]["N"].k \in {"num", "rat"}}
      \* all fractions of one table share their denominator
      den == IF \E i \in finite : rows[i]["N"].k = "rat"
             THEN (CHOOSE i \in finite : rows[i]["N"].k = "rat")
             ELSE 0
      D == IF den = 0 THEN 1 ELSE rows[den]["N"].d
      val(i) == NumOver(rows[i]["N"], D)
      anyInf == \E i \in DOMAIN rows : rows[i]["N"].k = "inf"
      xs == FilterIdx([i \in DOMAIN rows |-> IF i \in finite THEN val(i) ELSE 0],
                      LAMBDA i : i \in finite)
  IN IF a.n_min # 0
     THEN FilterIdx(rows, LAMBDA i : \/ rows[i]["N"].k = "inf"
                                     \/ i \in finite /\ val(i) >= a.n_min * D)
     ELSE IF anyInf \/ finite = {}
     THEN <<>>   \* the quantile is not a number: no row compares >= to it
     ELSE FilterIdx(rows, LAMBDA i : i \in finite /\ 10 * val(i) >= quantile90_x10(xs))

\* the rows with N >= n_min, n_min = args.n_min or N.quantile(0.9) / 1.5
n_filter(rows, a) ==
  LET finite == {i \in DOMAIN rows : rows[i]["N"].k \in {"num", "rat"}}
      \* all fractions of one table share their denominator
      den == IF \E i \in finite : rows[i]["N"].k = "rat"
             THEN (CHOOSE i \in finite : rows[i]["N"].k = "rat")
             ELSE 0
      D == IF den = 0 THEN 1 ELSE rows[den]["N"].d
      val(i) == NumOver(rows[i]["N"], D)
      anyInf == \E i \in DOMAIN rows : rows[i]["N"].k = "inf"
      xs == FilterIdx([i \in DOMAIN rows |-> IF i \in finite THEN val(i) ELSE 0],
                      LAMBDA i : i \in finite)
  IN IF a.n_min # 0
     THEN FilterIdx(rows, LAMBDA i : \/ rows[i]["N"].k = "inf"
                                     \/ i \in finite /\ val(i) >= a.n_min * D)
     ELSE IF anyInf \/ finite = {}
     THEN <<>>   \* the quantile is not a number: no row compares >= to it
     ELSE FilterIdx(rows, LAMBDA i : i \in finite /\ 15 * val(i) >= quantile90_x10(xs))

\* the rows with NSTUDY >= nstudy_min, nstudy_min = args.nstudy_min or NSTUDY.max()
nstudy_filter(rows, a) ==
  LET nstudy_min == IF a.nstudy_min # 0 THEN a.nstudy_min
                    ELSE SetMax({rows[i]["NSTUDY"].v : i \in DOMAIN rows})
  IN SelectSeq(rows, LAMBDA r : r["NSTUDY"].v >= nstudy_min)

\* set (or add as last column) the column c of a table
SetCol(t, c, cells) ==
  [cols |-> IF c \in Range(t.cols) THEN t.cols ELSE Append(t.cols, c),
   rows |-> [i \in DOMAIN t.rows |->
               [f \in DOMAIN t.rows[i] \cup {c} |-> IF f = c THEN cells[i] ELSE t.rows[i][f]]]]

\* dat.drop(D, axis=1)
DropTableCols(t, D) ==
  [cols |-> DropCols(t.cols, D),
   rows |-> [i \in DOMAIN t.rows |-> DropFields(t.rows[i], D)]]

\* process_n: [err, dat]
process_n(t, a) ==
  LET t1 == IF {"N_CAS", "N_CON"} \subseteq Range(t.cols)
            THEN DropTableCols(SetCol(t, "N", rescaled_N(t.rows)), {"N_CAS", "N_CON"})
            ELSE t
      t2 == IF "N" \in Range(t1.cols)
            THEN [t1 EXCEPT !.rows = n_filter(t1.rows, a)]
            ELSE IF "NSTUDY" \in Range(t1.cols)
            THEN DropTableCols([t1 EXCEPT !.rows = nstudy_filter(t1.rows, a)], {"NSTUDY"})
            ELSE t1
  IN IF "N" \in Range(t2.cols) THEN [err |-> "", dat |-> t2]
     ELSE IF a.N # 0
     THEN [err |-> "", dat |-> SetCol(t2, "N", [i \in DOMAIN t2.rows |-> Num(a.N)])]
     ELSE IF a.N_cas # 0 /\ a.N_con # 0
     THEN [err |-> "", dat |-> SetCol(t2, "N", [i \in DOMAIN t2.rows |-> Num(a.N_cas + a.N_con)])]
     ELSE [err |-> E_CannotDetermineN, dat |-> t2]

\* a Z cell: the magnitude sqrt(chi2.isf(p, 1)) of the P-value p, negated or not
Z(p, neg) == [k |-> "z", p |-> p, neg |-> neg]

\* p_to_z, for one cell
p_to_z(P) == IF IsNum(P) THEN Z(P.v, FALSE) ELSE NA

\* twice np.median(xs), xs non-empty
median_x2(xs) ==
  LET v == sorted(xs)
      n == Len(v)
  IN IF n % 2 = 1 THEN 2 * v[(n + 1) \div 2] ELSE v[n \div 2] + v[n \div 2 + 1]

Abs(x) == IF x < 0 THEN -x ELSE x

check_median_never(xs, expected_median, tolerance) == FALSE

\* check_median raises: abs(median(x) - expected_median) > tolerance
check_median_raises(xs, expected_median, tolerance) ==
  xs # <<>> /\ Abs(median_x2(xs) - 2 * expected_median) > 2 * tolerance

apply_sign_leq(z, ss, null) == IF z.k = "z" /\ IsNum(ss) /\ ss.v <= null THEN Z(z.p, ~z.neg) ELSE z

\* dat.Z *= (-1) ** (dat.SIGNED_SUMSTAT < signed_sumstat_null), for one row
apply_sign(z, ss, null) == IF z.k = "z" /\ IsNum(ss) /\ ss.v < null THEN Z(z.p, ~z.neg) ELSE z

\* tolerance of check_median: 0.1, in hundredths
MedianTolerance == 10

\* rename a column, in place
RenameCol(t, old, new) ==
  [cols |-> [i \in DOMAIN t.cols |-> IF t.cols[i] = old THEN new ELSE t.cols[i]],
   rows |-> [i \in DOMAIN t.rows |->
               [f \in (DOMAIN t.rows[i] \ {old}) \cup {new} |->
                  IF f = new THEN t.rows[i][old] ELSE t.rows[i][f]]]]

\* merge_alleles as munge_sumstats prepares it: columns SNP and MA
load_merge_alleles(file) ==
  [i \in DOMAIN file |-> [SNP |-> file[i].SNP, MA |-> str_upper(file[i].A1 \o file[i].A2)]]

inner_merge(alleles, t) ==
  LET others == DropCols(t.cols, {"SNP"})
      hits(j) == SelectSeq(t.rows, LAMBDA r : IsStr(r["SNP"]) /\ r["SNP"].v = alleles[j].SNP)
      joined(j) ==
        [h \in DOMAIN hits(j) |->
           [f \in Range(others) \cup {"SNP", "MA"} |->
              IF f = "MA" THEN Str(alleles[j].MA) ELSE hits(j)[h][f]]]
  IN [cols |-> <<"SNP", "MA">> \o others,
      rows |-> ConcatAll([j \in DOMAIN alleles |-> joined(j)])]

\* pd.merge(alleles, dat, how="left", on="SNP", sort=False): one row for each
\* pair of a panel row and a table row of its SNP, and one row with missing
\* values for a panel row with no table row
left_merge(alleles, t) ==
  LET others == DropCols(t.cols, {"SNP"})
      hits(j) == SelectSeq(t.rows, LAMBDA r : IsStr(r["SNP"]) /\ r["SNP"].v = alleles[j].SNP)
      joined(j) ==
        IF hits(j) = <<>>
        THEN << [f \in Range(others) \cup {"SNP", "MA"} |->
                   IF f = "SNP" THEN Str(alleles[j].SNP)
                   ELSE IF f = "MA" THEN Str(alleles[j].MA) ELSE NA] >>
        ELSE [h \in DOMAIN hits(j) |->
                [f \in Range(others) \cup {"SNP", "MA"} |->
                   IF f = "MA" THEN Str(alleles[j].MA) ELSE hits(j)[h][f]]]
  IN [cols |-> <<"SNP", "MA">> \o others,
      rows |-> ConcatAll([j \in DOMAIN alleles |-> joined(j)])]

allele_merge_lenient(t, alleles) ==
  LET m == left_merge(alleles, t)
      ii == {i \in DOMAIN m.rows : ~isnull(m.rows[i]["A1"])}
      a1234(i) == m.rows[i]["A1"].v \o m.rows[i]["A2"].v \o m.rows[i]["MA"].v
      jj == {i \in ii : a1234(i) \in MATCH_ALLELES}
      old == Cardinality(ii)
      n_mismatch == Cardinality(ii \ jj)
      nulled == [i \in DOMAIN m.rows |->
                   IF i \in jj THEN m.rows[i]
                   ELSE [f \in DOMAIN m.rows[i] |-> IF f = "SNP" THEN m.rows[i][f] ELSE NA]]
  IN IF "A1" \notin Range(t.cols)
     THEN [err |-> E_NoA1Attribute, dat |-> t]
     ELSE IF old > 0
     THEN [err |-> "", dat |-> DropTableCols([cols |-> m.cols, rows |-> nulled], {"MA"})]
     ELSE [err |-> E_AllDiscordant, dat |-> t]

\* allele_merge: [err, dat]
allele_merge(t, alleles) ==
  LET m == left_merge(alleles, t)
      ii == {i \in DOMAIN m.rows : ~isnull(m.rows[i]["A1"])}
      a1234(i) == m.rows[i]["A1"].v \o m.rows[i]["A2"].v \o m.rows[i]["MA"].v
      jj == {i \in ii : a1234(i) \in MATCH_ALLELES}
      old == Cardinality(ii)
      n_mismatch == Cardinality(ii \ jj)
      nulled == [i \in DOMAIN m.rows |->
                   IF i \in jj THEN m.rows[i]
                   ELSE [f \in DOMAIN m.rows[i] |-> IF f = "SNP" THEN m.rows[i][f] ELSE NA]]
  IN IF "A1" \notin Range(t.cols)
     THEN [err |-> E_NoA1Attribute, dat |-> t]
     ELSE IF n_mismatch < old
     THEN [err |-> "", dat |-> DropTableCols([cols |-> m.cols, rows |-> nulled], {"MA"})]
     ELSE [err |-> E_AllDiscordant, dat |-> t]

\* print_colnames
print_colnames(t, a) ==
  SelectSeq(t.cols, LAMBDA c : c \in {"SNP", "N", "Z", "A1", "A2"})
    \o (IF a.keep_maf /\ "FRQ" \in Range(t.cols) THEN <<"FRQ">> ELSE <<>>)

----------------------------------------------------------------------------
(* munge_sumstats, continued: reading, filtering and writing.              *)

\* the --merge-alleles file is read; dat_gen is opened on --sumstats
ReadMergeAlleles ==
  /\ pc = "read_merge"
  /\ merge_alleles' = IF args.merge_alleles THEN load_merge_alleles(merge_file) ELSE None
  /\ next_row' = 1
  /\ tot_snps' = 0
  /\ drops' = ZeroDrops
  /\ dat_list' = <<>>
  /\ pc' = "parse_dat"
  /\ UNCHANGED <<args, file_cnames, file_rows, merge_file, err, cname_map,
                 cname_translation, signed_sumstat_null, sign_cname, dat, out>>

\* the columns read_csv delivers: usecols, in file order
chunk_columns == SelectSeq(file_cnames, LAMBDA x : x \in DOMAIN cname_translation)

\* parse_dat: one iteration of "for chunk_number, dat in enumerate(dat_gen, start=1)"
ParseChunk ==
  /\ pc = "parse_dat"
  /\ next_row <= Len(file_rows)
  /\ LET raw == read_chunk(file_rows, next_row, args, DOMAIN cname_translation)
         res == parse_chunk(raw, chunk_columns, cname_translation, merge_alleles, args, drops)
     IN /\ next_row' = next_row + Len(raw)
        /\ tot_snps' = tot_snps + Len(raw)
        /\ drops' = res.drops
        /\ dat_list' = dat_list \o res.kept
        /\ IF res.err # ""
           THEN Raise(res.err)
           ELSE UNCHANGED <<pc, err>>
  /\ UNCHANGED <<args, file_cnames, file_rows, merge_file, cname_map,
                 cname_translation, signed_sumstat_null, sign_cname, merge_alleles,
                 dat, out>>

\* parse_dat after the loop: dat = pd.concat(dat_list, axis=0)
ParseFinish ==
  /\ pc = "parse_dat"
  /\ next_row > Len(file_rows)
  /\ IF dat_list = <<>>
     THEN /\ Raise(E_NoObjects)
          /\ UNCHANGED dat
     ELSE /\ dat' = [cols |-> dat_list[1].cols,
                     rows |-> ConcatAll([i \in DOMAIN dat_list |-> dat_list[i].rows])]
          /\ pc' = "drop_duplicates"
          /\ err' = ""
  /\ UNCHANGED <<args, file_cnames, file_rows, merge_file, cname_map,
                 cname_translation, signed_sumstat_null, sign_cname, merge_alleles,
                 next_row, tot_snps, drops, dat_list, out>>

\* "if len(dat) == 0: raise" and dat.drop_duplicates(subset="SNP")
DropDuplicates ==
  /\ pc = "drop_duplicates"
  /\ IF Len(dat.rows) = 0
     THEN /\ Raise(E_NoSNPsRemain)
          /\ UNCHANGED dat
     ELSE /\ dat' = [dat EXCEPT !.rows = drop_duplicates(dat.rows)]
          /\ pc' = "process_n"
          /\ err' = ""
  /\ UNCHANGED <<args, file_cnames, file_rows, merge_file, cname_map,
                 cname_translation, signed_sumstat_null, sign_cname, merge_alleles,
                 next_row, tot_snps, drops, dat_list, out>>

\* dat = process_n(dat, args)
ProcessN ==
  /\ pc = "process_n"
  /\ LET res == process_n(dat, args)
     IN /\ dat' = res.dat
        /\ IF res.err # ""
           THEN Raise(res.err)
           ELSE /\ pc' = "normalize"
                /\ err' = ""
  /\ UNCHANGED <<args, file_cnames, file_rows, merge_file, cname_map,
                 cname_translation, signed_sumstat_null, sign_cname, merge_alleles,
                 next_row, tot_snps, drops, dat_list, out>>

\* dat.P = p_to_z(dat.P, dat.N) .. dat.drop("SIGNED_SUMSTAT")
NormalizeSigned ==
  /\ pc = "normalize"
  /\ LET z == RenameCol([dat EXCEPT !.rows =
                           [i \in DOMAIN dat.rows |->
                              [dat.rows[i] EXCEPT !["P"] = p_to_z(@)]]], "P", "Z")
         ss == [i \in DOMAIN dat.rows |-> dat.rows[i]["SIGNED_SUMSTAT"].v]
         null == signed_sumstat_null[1]
     IN IF args.a1_inc
        THEN /\ dat' = z
             /\ pc' = "reconcile"
             /\ err' = ""
        ELSE IF check_median_raises(ss, null, MedianTolerance)
        THEN /\ dat' = z
             /\ Raise(E_Median)
        ELSE /\ dat' = DropTableCols(
                         [z EXCEPT !.rows =
                            [i \in DOMAIN z.rows |->
                               [z.rows[i] EXCEPT !["Z"] =
                                  apply_sign(@, z.rows[i]["SIGNED_SUMSTAT"], null)]]],
                         {"SIGNED_SUMSTAT"})
             /\ pc' = "reconcile"
             /\ err' = ""
  /\ UNCHANGED <<args, file_cnames, file_rows, merge_file, cname_map,
                 cname_translation, signed_sumstat_null, sign_cname, merge_alleles,
                 next_row, tot_snps, drops, dat_list, out>>

\* if args.merge_alleles: dat = allele_merge(dat, merge_alleles)
Reconcile ==
  /\ pc = "reconcile"
  /\ IF args.merge_alleles
     THEN LET res == allele_merge(dat, merge_alleles)
          IN /\ dat' = res.dat
             /\ IF res.err # ""
                THEN Raise(res.err)
                ELSE /\ pc' = "write"
                     /\ err' = ""
     ELSE /\ pc' = "write"
          /\ UNCHANGED <<dat, err>>
  /\ UNCHANGED <<args, file_cnames, file_rows, merge_file, cname_map,
                 cname_translation, signed_sumstat_null, sign_cname, merge_alleles,
                 next_row, tot_snps, drops, dat_list, out>>

\* dat.to_csv(out_fname, columns=print_colnames, ...); return dat
WriteOutput ==
  /\ pc = "write"
  /\ LET pcols == print_colnames(dat, args)
     IN out' = [cols |-> pcols,
                rows |-> [i \in DOMAIN dat.rows |-> DictRestrict(dat.rows[i], Range(pcols))]]
  /\ pc' = "done"
  /\ UNCHANGED <<args, file_cnames, file_rows, merge_file, err, cname_map,
                 cname_translation, signed_sumstat_null, sign_cname, merge_alleles,
                 next_row, tot_snps, drops, dat_list, dat>>

----------------------------------------------------------------------------
(* Specifications.                                                         *)

\* runs over many headers and configurations, on one two-row file
InitResolve ==
  \E a \in ResolveArgs, hs \in ResolveHeaders :
    Entry(a, hs, <<FileRow(hs, RowA), FileRow(hs, RowB)>>, <<PanelAG, PanelX, PanelCT>>)

\* runs over many files, on a few headers and configurations
InitPipeline ==
  \E a \in PipelineArgs, info_name \in InfoNames, ts \in SeqsUpTo(PipelineRows, MaxRows) :
    Entry(a, PipelineHeader(info_name),
          [i \in DOMAIN ts |-> FileRow(PipelineHeader(info_name), ts[i])],
          <<PanelAG, PanelX, PanelAC>>)

\* runs over many tables, on a few sources of N
InitSample ==
  \E c \in SampleConfigs, ts \in SeqsUpTo(SampleRows, MaxRows) :
    Entry(c.args, SampleHeader(c.kind),
          [i \in DOMAIN ts |-> FileRow(SampleHeader(c.kind), ts[i])],
          <<PanelAG, PanelX, PanelAC>>)

Init == InitResolve \/ InitPipeline \/ InitSample

Next ==
  \/ ResolveColumns
  \/ SignedSumstatCheck
  \/ ValidateSchema
  \/ ReadMergeAlleles
  \/ ParseChunk
  \/ ParseFinish
  \/ DropDuplicates
  \/ ProcessN
  \/ NormalizeSigned
  \/ Reconcile
  \/ WriteOutput

Spec == Init /\ [][Next]_vars

SpecResolve == InitResolve /\ [][Next]_vars

SpecPipeline == InitPipeline /\ [][Next]_vars

SpecSample == InitSample /\ [][Next]_vars
----------------------------------------------------------------------------
(* Properties.                                                             *)

ResolveErrors == {E_IndexError, E_FloatError, E_NoNca, E_NoNco}
SignErrors == {E_TooManySigned, E_NoSigned}
MissingFieldErrors == {E_NoSNP, E_NoP, E_NoSignedSumstat, E_NoN, E_NoAlleles}
DuplicateErrors == {E_DupHeader, E_DupField}

\* column resolution has produced cname_map and cname_translation
Resolved == pc # "resolve" /\ ~(pc = "error" /\ err \in ResolveErrors)

\* the signed-statistic check has run
SignChecked == Resolved /\ pc # "sign"

\* schema validation has run
ValidationRan ==
  SignChecked /\ pc # "validate" /\ ~(pc = "error" /\ err \in SignErrors)

\* schema validation has run and raised nothing
Validated ==
  ValidationRan /\ ~(pc = "error" /\ err \in MissingFieldErrors \cup DuplicateErrors)

\* the canonical forms of the entries of --ignore
IgnoredLabels == {clean_header(x) : x \in Range(args.ignore)}

\* the fields that file headers are mapped to
Fields == DictValues(cname_translation)

\* C1: no file header whose canonical form is that of an entry of the ignore
\* list is a key of cname_translation, whatever the overrides, the defaults
\* and the daner options.
C1_IgnoredNeverMapped ==
  Resolved => \A h \in DOMAIN cname_translation : clean_header(h) \notin IgnoredLabels

\* the canonical labels of a run: those of the file headers, of the ignore
\* list, of the overrides and of the built-in dictionary
DefaultLabels == {clean_header(k) : k \in DOMAIN default_cnames}

CanonicalLabels ==
  DefaultLabels \cup
  {clean_header(x) :
     x \in Range(file_cnames) \cup Range(args.ignore)
           \cup DOMAIN parse_flag_cnames(args).flag_cnames}

\* the keys the daner blocks assign after get_cname_map
DanerKeys ==
  (IF args.daner \/ args.daner_n
   THEN {h \in Range(file_cnames) : startswith(h, S_FRQ_U_)} ELSE {})
  \cup (IF args.daner_n THEN {clean_header(S_Nca), clean_header(S_Nco)} ELSE {})

\* C2: get_cname_map merges by priority ignore > override > default: for
\* every canonical label L its result has no entry if L is ignored, else the
\* override's field if L is overridden, else the dictionary's field if the
\* dictionary has L, else no entry; and this result is the map the run uses
\* when no daner option is set.
C2_PriorityMerge ==
  pc = "sign" =>
    LET flag == parse_flag_cnames(args).flag_cnames
        default == mod_default_cnames(args)
        m == get_cname_map(flag, default, args.ignore)
    IN /\ \A L \in CanonicalLabels :
            IF L \in IgnoredLabels THEN L \notin DOMAIN m
            ELSE IF L \in DOMAIN flag THEN L \in DOMAIN m /\ m[L] = flag[L]
            ELSE IF L \in DOMAIN default THEN L \in DOMAIN m /\ m[L] = default[L]
            ELSE L \notin DOMAIN m
       /\ (~args.daner /\ ~args.daner_n) => cname_map = m

\* a label with an override and a different default is mapped as overridden,
\* and an ignored one that has a default is absent
C2_Witness ==
  /\ pc = "sign"
  /\ LET flag == parse_flag_cnames(args).flag_cnames
     IN \E L \in DOMAIN flag \cap DOMAIN default_cnames :
          /\ flag[L] # default_cnames[L]
          /\ L \in DOMAIN cname_map
          /\ cname_map[L] = flag[L]

\* C3: a file header that is neither ignored nor overridden and whose
\* canonical form is that of a key k of default_cnames is mapped to
\* default_cnames[k] (stated where the whole dictionary is in force: no
\* signed statistic designated, a1_inc unset).
C3_DefaultByCanonicalForm ==
  (pc = "sign" /\ args.signed_sumstats = None /\ ~args.a1_inc) =>
    \A h \in Range(file_cnames) :
      (/\ clean_header(h) \notin IgnoredLabels
       /\ clean_header(h) \notin DOMAIN parse_flag_cnames(args).flag_cnames
       /\ h \notin DanerKeys) =>
        \A k \in DOMAIN default_cnames :
          clean_header(k) = clean_header(h) =>
            h \in DOMAIN cname_translation /\ cname_translation[h] = default_cnames[k]

\* the file headers that resolve to one of OR / BETA / Z / LOG_ODDS
SignedHeaders ==
  {h \in Range(file_cnames) :
     /\ clean_header(h) \in DOMAIN cname_map
     /\ cname_map[clean_header(h)] \in {"OR", "BETA", "Z", "LOG_ODDS"}}

\* C4: with no signed-statistic override and a1_inc unset, several signed
\* headers raise "too many", none raises "could not find", and a single one
\* is relabelled SIGNED_SUMSTAT with the null value of its kind (1 for OR,
\* 0 for the others).  Columns are told apart by their header.
C4_ExactlyOneSigned ==
  (SignChecked /\ args.signed_sumstats = None /\ ~args.a1_inc) =>
    /\ Cardinality(SignedHeaders) > 1 => pc = "error" /\ err = E_TooManySigned
    /\ Cardinality(SignedHeaders) = 0 => pc = "error" /\ err = E_NoSigned
    /\ Cardinality(SignedHeaders) = 1 =>
         \A h \in SignedHeaders :
           /\ ~(pc = "error" /\ err \in SignErrors)
           /\ sign_cname = h
           /\ h \in DOMAIN cname_translation
           /\ cname_translation[h] = "SIGNED_SUMSTAT"
           /\ signed_sumstat_null =
                << IF cname_map[clean_header(h)] = "OR" THEN 100 ELSE 0 >>

\* an OR column, the only signed one, has been relabelled with null value 1
C4_Witness ==
  /\ pc = "validate"
  /\ args.signed_sumstats = None /\ ~args.a1_inc
  /\ \E h \in SignedHeaders :
       /\ SignedHeaders = {h}
       /\ cname_map[clean_header(h)] = "OR"
       /\ cname_translation[h] = "SIGNED_SUMSTAT"
       /\ signed_sumstat_null = <<100>>

\* C5: once validation has passed, no two headers map to one field and no
\* mapped header occurs twice in the file; the file body is read only then.
C5_Injective ==
  /\ Validated =>
       /\ \A h1, h2 \in DOMAIN cname_translation :
            cname_translation[h1] = cname_translation[h2] => h1 = h2
       /\ \A h \in DOMAIN cname_translation :
            Cardinality({i \in DOMAIN file_cnames : file_cnames[i] = h}) = 1
  /\ (tot_snps > 0 \/ next_row > 1) => Validated

\* validation has passed on a file with eight mapped columns
C5_Witness ==
  /\ pc = "read_merge"
  /\ Cardinality(DOMAIN cname_translation) >= 8

\* a required field is missing: SNP or P; SIGNED_SUMSTAT with a1_inc unset;
\* A1 or A2 with alleles required; or every source of N
MissingField ==
  \/ "SNP" \notin Fields
  \/ "P" \notin Fields
  \/ ~args.a1_inc /\ "SIGNED_SUMSTAT" \notin Fields
  \/ ~args.no_alleles /\ ("A1" \notin Fields \/ "A2" \notin Fields)
  \/ /\ "N" \notin Fields
     /\ ~("N_CAS" \in Fields /\ "N_CON" \in Fields)
     /\ args.N = 0
     /\ ~(args.N_cas # 0 /\ args.N_con # 0)

InfoListHeaders ==
  {h \in Range(file_cnames) :
     /\ clean_header(h) \in {clean_header(x) : x \in Range(args.info_list)}
     /\ clean_header(h) \notin IgnoredLabels}

\* C10: when several designated INFO columns are in the file (and no other
\* field has several columns), the run is not stopped for having several
\* columns of one field.
C10_InfoListProceeds ==
  (/\ Cardinality(InfoListHeaders) >= 2
   /\ ValidationRan
   /\ \A f \in Fields \ {"INFO"} :
        Cardinality({h \in DOMAIN cname_translation : cname_translation[h] = f}) = 1)
  => ~(pc = "error" /\ err = E_DupField)

\* the row of the final table has a Z value
HasZ(r) == "Z" \in DOMAIN r /\ r["Z"].k = "z"

\* the allele pair of the row is strand-unambiguous
ValidAlleles(r) ==
  /\ IsStr(r["A1"]) /\ IsStr(r["A2"])
  /\ r["A1"].v \o r["A2"].v \in VALID_SNPS

\* no other row of the table has the SNP of row i
UniqueSNP(rows, i) == \A j \in DOMAIN rows : rows[j]["SNP"] = rows[i]["SNP"] => j = i

\* every row of the table is well-formed
WellFormed(rows) ==
  \A i \in DOMAIN rows :
    /\ UniqueSNP(rows, i)
    /\ HasZ(rows[i])
    /\ args.no_alleles \/ ValidAlleles(rows[i])

\* C7 as stated: in every completed run, with or without a reference panel,
\* every row of the final table has a SNP of its own, a non-null Z and a
\* valid allele pair.
C7_AllRowsWellFormed == pc = "done" => WellFormed(out.rows)

\* C7: in every completed run without a reference panel every row of the
\* final table has a SNP of its own, a non-null Z and a valid allele pair;
\* with a reference panel (one row for each SNP) the table has the panel's
\* SNPs in the panel's order, each once, and a row either has a non-null Z
\* and a valid allele pair matching the panel or is missing in every column
\* but SNP.
C7_WellFormedOrBlank ==
  pc = "done" =>
    IF ~args.merge_alleles
    THEN WellFormed(out.rows)
    ELSE /\ [i \in DOMAIN out.rows |-> out.rows[i]["SNP"]]
              = [j \in DOMAIN merge_alleles |-> Str(merge_alleles[j].SNP)]
         /\ \A i \in DOMAIN out.rows :
              \/ /\ HasZ(out.rows[i])
                 /\ ValidAlleles(out.rows[i])
                 /\ out.rows[i]["A1"].v \o out.rows[i]["A2"].v \o merge_alleles[i].MA
                      \in MATCH_ALLELES
              \/ \A f \in DOMAIN out.rows[i] \ {"SNP"} : isnull(out.rows[i][f])

\* a run with a reference panel has written a table with a matched row and
\* a blank one
C7_Witness ==
  /\ pc = "done"
  /\ args.merge_alleles
  /\ \E i, j \in DOMAIN out.rows : HasZ(out.rows[i]) /\ isnull(out.rows[j]["Z"])

\* C8: every row retained by parse_dat that keeps its FRQ stores the folded
\* frequency: at most 0.5 and above maf_min.
C8_StoredFrqFolded ==
  \A b \in DOMAIN dat_list :
    \A i \in DOMAIN dat_list[b].rows :
      LET r == dat_list[b].rows[i]
      IN "FRQ" \in DOMAIN r => (IsNum(r["FRQ"]) /\ r["FRQ"].v <= 50 /\ r["FRQ"].v > args.maf_min)

\* the rows read so far that miss a value in a used column other than the
\* one resolved to INFO
MissingOutsideInfo ==
  {i \in 1..(next_row - 1) :
     \E x \in DOMAIN cname_translation :
       cname_translation[x] # "INFO" /\ isnull(file_rows[i][x])}

\* C9: the NA filter removes and counts exactly the rows that miss a value
\* in a used column other than the one resolved to INFO, whatever the raw
\* header of that column.
C9_InfoExemptFromNA ==
  (Validated /\ next_row > 1) => drops.NA = Cardinality(MissingOutsideInfo)

\* the rows that parse_dat has retained so far
RetainedRows == ConcatAll([b \in DOMAIN dat_list |-> dat_list[b].rows])

\* the sum of the counters that parse_dat updates
ParseDrops == drops.NA + drops.MERGE + drops.INFO + drops.FRQ + drops.P + drops.A

\* an exception has ended parse_dat inside an iteration of its loop
ParseDatRaised == pc = "error" /\ err \in {E_NotNumeric, E_StrAccessor}

\* C11: while and after parse_dat filters the batches, the rows read so far
\* are the rows counted under NA, MERGE, INFO, FRQ, P and A plus the rows
\* retained so far, and no step of the run decreases a counter.
C11_DropAccounting ==
  /\ [](~ParseDatRaised =>
          /\ tot_snps = next_row - 1
          /\ tot_snps = ParseDrops + Len(RetainedRows))
  /\ [][\A tag \in DOMAIN drops : drops'[tag] >= drops[tag]]_vars

\* two batches were read, one removed entirely by the reference-panel
\* pre-filter, and rows were removed by a later filter and retained
C11_Witness ==
  /\ pc = "parse_dat"
  /\ args.merge_alleles /\ args.chunksize = 1
  /\ next_row = 3
  /\ drops.MERGE = 1
  /\ Len(dat_list) = 1

\* the sum of every entry of drops
AllDrops == ParseDrops + drops.SNP

\* C12: every row removed before reconciliation is counted in drops (rows
\* removed as duplicate SNPs and by the minimum-N filter included): when the
\* table reaches reconciliation, the rows read are the sum of all the
\* counters plus the rows of the table.
C12_EveryRemovalCounted ==
  pc = "reconcile" => tot_snps = AllDrops + Len(dat.rows)

\* parse_dat has read the whole file and retained no row
NoRowSurvived ==
  /\ Validated
  /\ pc \notin {"read_merge", "parse_dat"}
  /\ ~ParseDatRaised
  /\ dat_list = <<>>

\* C13: when no row survives the filters of parse_dat the run stops with
\* the error of the zero-rows check that follows parse_dat ("After applying
\* filters, no SNPs remain."), and no later stage has run.
C13_EmptyResultError ==
  NoRowSurvived =>
    /\ pc = "error" /\ err = E_NoSNPsRemain
    /\ dat = EmptyTable /\ out = EmptyTable

\* the table that process_n receives has N_CAS and N_CON columns
HasCaseControl == pc = "process_n" /\ {"N_CAS", "N_CON"} \subseteq Range(dat.cols)

\* N_CAS + N_CON of a row
Total(r) == r["N_CAS"].v + r["N_CON"].v

\* the rows of the table whose N_CAS + N_CON is the maximum over the table
Anchors == {i \in DOMAIN dat.rows : \A j \in DOMAIN dat.rows : Total(dat.rows[j]) <= Total(dat.rows[i])}

\* the cell c holds exactly the number x
CellEquals(c, x) ==
  \/ c.k = "num" /\ c.v = x
  \/ c.k = "rat" /\ c.n = x * c.d

\* C14 as stated, on tables where every row has cases: every row whose
\* N_CAS + N_CON is the maximum over the table is assigned exactly its
\* N_CAS + N_CON, also when several rows share the maximum with different
\* case counts.
C14_AnchorKeepsTotal ==
  (HasCaseControl /\ \A i \in DOMAIN dat.rows : dat.rows[i]["N_CAS"].v > 0) =>
    \A i \in Anchors : CellEquals(rescaled_N(dat.rows)[i], Total(dat.rows[i]))

\* C14: when the rows whose N_CAS + N_CON is the maximum have cases, such a
\* row is assigned exactly its N_CAS + N_CON if and only if its N_CAS is the
\* mean N_CAS of those rows (so always when one row attains the maximum or
\* all of them have one case count), and the mean of the N assigned to those
\* rows is the maximum; the table process_n returns carries the assigned N.
C14_AnchorMeanKeepsTotal ==
  /\ [](HasCaseControl =>
          LET N == rescaled_N(dat.rows)
              cases == SumSeq([i \in DOMAIN dat.rows |->
                                 IF i \in Anchors THEN dat.rows[i]["N_CAS"].v ELSE 0])
          IN cases > 0 =>
               /\ \A i \in Anchors :
                    /\ N[i].k = "rat"
                    /\ CellEquals(N[i], Total(dat.rows[i]))
                         <=> dat.rows[i]["N_CAS"].v * Cardinality(Anchors) = cases
               /\ \A i \in Anchors :
                    SumSeq([j \in DOMAIN dat.rows |-> IF j \in Anchors THEN N[j].n ELSE 0])
                      = Cardinality(Anchors) * Total(dat.rows[i]) * N[i].d)
  /\ [][(HasCaseControl /\ pc' = "normalize") =>
          \A j \in DOMAIN dat'.rows : \E i \in DOMAIN dat.rows :
            /\ dat.rows[i]["SNP"] = dat'.rows[j]["SNP"]
            /\ dat'.rows[j]["N"] = rescaled_N(dat.rows)[i]]_vars

\* process_n has rescaled a table of two rows with different totals, and the
\* row with the larger total has its N_CAS + N_CON as N
C14_Witness ==
  /\ pc = "normalize"
  /\ Len(dat.rows) = 2
  /\ \E j \in DOMAIN dat.rows :
       /\ dat.rows[j]["N"].k = "rat"
       /\ dat.rows[j]["N"].n = 1000 * dat.rows[j]["N"].d
  /\ \E j \in DOMAIN dat.rows :
       /\ dat.rows[j]["N"].k = "rat"
       /\ dat.rows[j]["N"].n < 1000 * dat.rows[j]["N"].d

\* process_n returns normally
ProcessNReturns == pc = "process_n" /\ pc' = "normalize"

\* the numerator of an N cell (the N cells of one table have one denominator)
Numerator(c) == IF c.k = "rat" THEN c.n ELSE c.v

\* the N cell c of a table whose N cells are cells is at least the threshold:
\* the explicit minimum if given, else the 90th percentile of N divided by 1.5
AtLeastMinN(c, cells) ==
  IF args.n_min # 0
  THEN Numerator(c) >= args.n_min * (IF c.k = "rat" THEN c.d ELSE 1)
  ELSE 15 * Numerator(c) >= quantile90_x10([i \in DOMAIN cells |-> Numerator(cells[i])])

\* the fixed N of the configuration
FixedN == IF args.N # 0 THEN args.N ELSE args.N_cas + args.N_con

NormalizeReturns == pc = "normalize" /\ pc' = "reconcile"

\* C16: when a1_inc is unset, the table the sign normalizer returns has,
\* for every row, the magnitude derived from the row's P as Z, negated if
\* and only if the row's SIGNED_SUMSTAT is strictly below the null value,
\* and has no SIGNED_SUMSTAT column.
C16_SignConvention ==
  [][(NormalizeReturns /\ ~args.a1_inc) =>
       /\ Len(dat'.rows) = Len(dat.rows)
       /\ "SIGNED_SUMSTAT" \notin Range(dat'.cols)
       /\ \A i \in DOMAIN dat.rows :
            /\ dat'.rows[i]["SNP"] = dat.rows[i]["SNP"]
            /\ "SIGNED_SUMSTAT" \notin DOMAIN dat'.rows[i]
            /\ dat'.rows[i]["Z"].k = "z"
            /\ dat'.rows[i]["Z"].p = dat.rows[i]["P"].v
            /\ dat'.rows[i]["Z"].neg
                 <=> dat.rows[i]["SIGNED_SUMSTAT"].v < signed_sumstat_null[1]]_vars

\* the sign normalizer has returned a table with a negated Z and with a
\* non-negated Z for a row whose SIGNED_SUMSTAT is the null value
C16_Witness ==
  /\ pc = "reconcile"
  /\ ~args.a1_inc
  /\ \E i \in DOMAIN dat.rows : dat.rows[i]["Z"].neg
  /\ \E i \in DOMAIN dat.rows : \E j \in DOMAIN RetainedRows :
       /\ RetainedRows[j]["SNP"] = dat.rows[i]["SNP"]
       /\ RetainedRows[j]["SIGNED_SUMSTAT"].v = signed_sumstat_null[1]
       /\ ~dat.rows[i]["Z"].neg

\* the SIGNED_SUMSTAT values of the table, in ascending order
SortedSigned == sorted([i \in DOMAIN dat.rows |-> dat.rows[i]["SIGNED_SUMSTAT"].v])

\* the median of SIGNED_SUMSTAT differs from the null value by more than 0.1
\* (values in hundredths; both sides doubled); a table without rows has no
\* median
MedianOff ==
  LET v == SortedSigned
      n == Len(v)
      twice == IF n % 2 = 1 THEN 2 * v[(n + 1) \div 2] ELSE v[n \div 2] + v[n \div 2 + 1]
      null == signed_sumstat_null[1]
  IN n > 0 /\ (twice - 2 * null > 20 \/ 2 * null - twice > 20)

\* C17: when a1_inc is unset the sign normalizer stops the run with the
\* median error, nothing being written, if the median of SIGNED_SUMSTAT
\* over the table it receives differs from the null value by more than 0.1,
\* and returns normally otherwise; when a1_inc is set it always returns
\* normally and negates no Z.
C17_MedianCheck ==
  /\ [][(pc = "normalize" /\ pc' # "normalize") =>
          IF args.a1_inc
          THEN /\ pc' = "reconcile"
               /\ \A i \in DOMAIN dat'.rows : ~dat'.rows[i]["Z"].neg
          ELSE IF MedianOff
          THEN pc' = "error" /\ err' = E_Median
          ELSE pc' = "reconcile"]_vars
  /\ []((pc = "error" /\ err = E_Median) => out = EmptyTable)
  /\ [][pc = "error" => pc' = "error"]_vars

\* the run has stopped with the median error on a table of several rows
C17_Witness ==
  /\ pc = "error" /\ err = E_Median
  /\ Len(dat.rows) >= 2
  /\ ~args.a1_inc

\* allele_merge returns normally
AlleleMergeReturns == pc = "reconcile" /\ args.merge_alleles /\ pc' = "write"

\* the rows of the table that have the SNP of row j of the reference panel
\* and alleles that match the panel's
Matching(j) ==
  {i \in DOMAIN dat.rows :
     /\ dat.rows[i]["SNP"] = Str(merge_alleles[j].SNP)
     /\ dat.rows[i]["A1"].v \o dat.rows[i]["A2"].v \o merge_alleles[j].MA \in MATCH_ALLELES}

\* C18: the table allele_merge returns has one row for each row of the
\* reference panel, in the panel's order and with the panel's SNP; the row
\* of a panel SNP that the table has with matching alleles carries the
\* table's fields, and every other row is missing in every field but SNP.
C18_AlignedJoin ==
  [][AlleleMergeReturns =>
       /\ Len(dat'.rows) = Len(merge_alleles)
       /\ "MA" \notin Range(dat'.cols)
       /\ Range(dat'.cols) = Range(dat.cols)
       /\ \A j \in DOMAIN dat'.rows :
            /\ DOMAIN dat'.rows[j] = Range(dat.cols)
            /\ dat'.rows[j]["SNP"] = Str(merge_alleles[j].SNP)
            /\ IF Matching(j) # {}
               THEN \E i \in Matching(j) : dat'.rows[j] = dat.rows[i]
               ELSE \A f \in DOMAIN dat'.rows[j] \ {"SNP"} : isnull(dat'.rows[j][f])]_vars

\* allele_merge has returned a table of the panel's three rows, in which
\* one row is kept, the row of a SNP with discordant alleles is blank and the
\* row of a SNP that the file does not have is blank
C18_Witness ==
  /\ pc = "write"
  /\ args.merge_alleles
  /\ Len(dat.rows) = 3
  /\ ~isnull(dat.rows[1]["Z"])
  /\ isnull(dat.rows[2]["Z"]) /\ isnull(dat.rows[3]["Z"])
  /\ \E j \in DOMAIN RetainedRows : RetainedRows[j]["SNP"] = dat.rows[3]["SNP"]

\* allele_merge runs
AlleleMergeRuns == pc = "reconcile" /\ args.merge_alleles /\ pc' # "reconcile"

\* C19: allele_merge stops the run with the 'all alleles discordant' error
\* if and only if no row of the table joins a row of the reference panel
\* with matching alleles (no row joining at all included), and returns
\* normally otherwise.
C19_AllDiscordant ==
  [][AlleleMergeRuns =>
       IF \A j \in DOMAIN merge_alleles : Matching(j) = {}
       THEN pc' = "error" /\ err' = E_AllDiscordant
       ELSE pc' = "write"]_vars

\* the run has stopped with the 'all alleles discordant' error on a table
\* that has a SNP of the reference panel
C19_Witness ==
  /\ pc = "error" /\ err = E_AllDiscordant
  /\ \E i \in DOMAIN dat.rows : \E j \in DOMAIN merge_alleles :
       dat.rows[i]["SNP"] = Str(merge_alleles[j].SNP)

\* the columns of the output in the order SNP, N, Z, A1, A2, FRQ
FixedOrder == <<"SNP", "N", "Z", "A1", "A2", "FRQ">>

\* C20: the columns of the written table are the members of SNP, N, Z, A1,
\* A2, FRQ that the result has, in that order, whatever the order of the
\* columns of the file.
C20_FixedColumnOrder ==
  pc = "done" =>
    out.cols = SelectSeq(FixedOrder, LAMBDA c : c \in Range(dat.cols) /\ (c = "FRQ" => args.keep_maf))


\* the cell of the file row r that is read as field f
FieldCell(r, f) == r[CHOOSE x \in DOMAIN cname_translation : cname_translation[x] = f]

\* a file row with no missing value, P in (0, 1], INFO and folded FRQ above
\* their minimums and a valid pair of alleles
CleanRow(r) ==
  /\ \A x \in DOMAIN cname_translation : ~isnull(r[x])
  /\ LET P == FieldCell(r, "P") IN IsNum(P) /\ P.v > 0 /\ P.v <= 100
  /\ "INFO" \in Fields =>
       LET I == FieldCell(r, "INFO") IN IsNum(I) /\ I.v >= args.info_min
  /\ "FRQ" \in Fields =>
       LET F == FieldCell(r, "FRQ")
       IN IsNum(F) /\ F.v >= 0 /\ F.v <= 100 /\ Min2(F.v, 100 - F.v) > args.maf_min
  /\ LET A1 == FieldCell(r, "A1")
         A2 == FieldCell(r, "A2")
     IN IsStr(A1) /\ IsStr(A2) /\ str_upper(A1.v) \o str_upper(A2.v) \in VALID_SNPS

\* the run is filtering, or has filtered, a clean file with unique SNPs, and
\* no reference panel is configured
CleanInput ==
  /\ pc \in {"parse_dat", "drop_duplicates", "process_n", "normalize"}
  /\ ~args.merge_alleles
  /\ \A i \in DOMAIN file_rows : CleanRow(file_rows[i])
  /\ \A i, j \in DOMAIN file_rows :
       FieldCell(file_rows[i], "SNP") = FieldCell(file_rows[j], "SNP") => i = j

\* the N cells of the file
FileN == [i \in DOMAIN file_rows |-> FieldCell(file_rows[i], "N")]

\* C21 (as stated): the filters, duplicate removal and sample-size
\* resolution with its default minimum-N filter remove no row of a clean
\* file: after process_n the table has as many rows as the file.
C21_CleanTableKeepsAllRows ==
  (CleanInput /\ pc = "normalize") => Len(dat.rows) = Len(file_rows)

\* C21 (amended): the NA, INFO, FRQ, P and allele filters and duplicate
\* removal remove no row of a clean file and count no drop; the rows they
\* retain from any file pass the P and allele filters again and have
\* distinct SNPs; sample-size resolution keeps, of a clean file, exactly the
\* rows whose N is at least the threshold, hence every row when all rows
\* carry one N.
C21_CleanTableLosesOnlyLowN ==
  /\ pc = "process_n" =>
       /\ drop_duplicates(dat.rows) = dat.rows
       /\ \A i \in DOMAIN dat.rows :
            /\ filter_pvals(dat.rows[i]["P"])
            /\ ~args.no_alleles =>
                 filter_alleles(cell_concat(cell_upper(dat.rows[i]["A1"]),
                                            cell_upper(dat.rows[i]["A2"])))
            /\ "FRQ" \in Range(dat.cols) => filter_frq(dat.rows[i]["FRQ"], args)
  /\ CleanInput =>
       /\ pc # "normalize" => drops = ZeroDrops
       /\ pc = "parse_dat" => Len(RetainedRows) = next_row - 1
       /\ pc \in {"drop_duplicates", "process_n"} =>
            \A i \in DOMAIN file_rows :
              /\ i \in DOMAIN dat.rows
              /\ dat.rows[i]["SNP"] = FieldCell(file_rows[i], "SNP")
       /\ pc = "normalize" =>
            LET keep == {i \in DOMAIN file_rows : AtLeastMinN(FileN[i], FileN)}
            IN /\ Len(dat.rows) = Cardinality(keep)
               /\ \A i \in keep : \E j \in DOMAIN dat.rows :
                    dat.rows[j]["SNP"] = FieldCell(file_rows[i], "SNP")
               /\ (\A i, j \in DOMAIN file_rows : FileN[i] = FileN[j]) =>
                    Len(dat.rows) = Len(file_rows)

\* a clean file of two rows, with INFO and FRQ columns, has passed the
\* filters, duplicate removal and sample-size resolution with both rows
C21_Witness ==
  /\ CleanInput /\ pc = "normalize"
  /\ {"INFO", "FRQ"} \subseteq Fields
  /\ Len(file_rows) = 2
  /\ Len(dat.rows) = 2

\* the file headers that start with FRQ_U_
FrqUHeaders == {h \in Range(file_cnames) : startswith(h, S_FRQ_U_)}

\* C22: in daner mode, once the columns are resolved no file header is read
\* as N, N_CAS or N_CON and only an FRQ_U_<n> header is read as FRQ; and every
\* row that leaves sample-size resolution has N equal to the case count plus
\* the control count inferred from the FRQ_A_<n> and FRQ_U_<n> headers.
C22_DanerOverridesN ==
  (args.daner /\ Resolved) =>
    /\ \A h \in DOMAIN cname_translation :
         /\ cname_translation[h] \notin {"N", "N_CAS", "N_CON"}
         /\ cname_translation[h] = "FRQ" => h \in FrqUHeaders
    /\ pc = "normalize" =>
         \A i \in DOMAIN dat.rows : dat.rows[i]["N"] = Num(args.N_cas + args.N_con)

\* the configuration errors of column resolution's signed-statistic check
\* and of schema validation
ConfigurationErrors == SignErrors \cup MissingFieldErrors \cup DuplicateErrors

\* no data row has been read or filtered
NothingRead ==
  /\ next_row = 1
  /\ tot_snps = 0
  /\ drops = ZeroDrops
  /\ dat_list = <<>>
  /\ dat = EmptyTable

\* the conditions whose failure is a configuration error all hold of the
\* column map
SchemaHolds ==
  /\ ~args.a1_inc => Cardinality({h \in DOMAIN cname_translation :
                                    cname_translation[h] = "SIGNED_SUMSTAT"}) = 1
  /\ {"SNP", "P"} \subseteq Fields
  /\ \A h \in DOMAIN cname_translation :
       Cardinality({i \in DOMAIN file_cnames : file_cnames[i] = h}) = 1
  /\ \A h1, h2 \in DOMAIN cname_translation :
       cname_translation[h1] = cname_translation[h2] => h1 = h2
  /\ \/ args.N # 0
     \/ args.N_cas # 0 /\ args.N_con # 0
     \/ "N" \in Fields
     \/ {"N_CAS", "N_CON"} \subseteq Fields
  /\ args.no_alleles \/ {"A1", "A2"} \subseteq Fields

\* C23: a run that stops with a configuration error (ambiguous or missing
\* signed statistic, missing required field, duplicate header, duplicate
\* field, undeterminable N, missing A1/A2) has read and filtered no data row;
\* and whenever a data row has been read, column resolution and schema
\* validation have completed and every condition they test holds.
C23_ConfigurationErrorsFirst ==
  /\ (pc = "error" /\ err \in ConfigurationErrors) => NothingRead
  /\ ~NothingRead => (Validated /\ SchemaHolds)

\* the last test of schema validation has stopped a run on a file that has
\* data rows, none of which was read
C23_Witness ==
  /\ pc = "error" /\ err = E_NoAlleles
  /\ Len(file_rows) = 2
  /\ NothingRead

S_rs_Id == <<"r","s","-","I","d">>
S_RS_ID == <<"R","S",".","I","D">>
S_RSID == <<"R","S","I","D">>
S_RS_ID_underscore == <<"R","S","_","I","D">>

\* the strings a run normalizes: the file headers, the entries of the ignore
\* list and the option values that name headers
RunHeaders ==
  Range(file_cnames) \cup Range(args.ignore)
  \cup {x[1] : x \in {y \in Range(cname_options(args)) : y[1] # None}}

\* normalizing a normalized string changes nothing, in both implementations
Idempotent(s) ==
  /\ clean_header(clean_header(s)) = clean_header(s)
  /\ clean_header_to_chisq(clean_header_to_chisq(s)) = clean_header_to_chisq(s)

\* the normal form of s does not depend on the case of its letters nor on
\* which of "-", "." and "_" it has for separators, in both implementations
Insensitive(s) ==
  /\ clean_header(str_upper(s)) = clean_header(s)
  /\ clean_header(str_replace(s, "-", ".")) = clean_header(s)
  /\ clean_header(str_replace(s, ".", "_")) = clean_header(s)
  /\ clean_header_to_chisq(str_upper(s)) = clean_header_to_chisq(s)
  /\ clean_header_to_chisq(str_replace(s, "-", ".")) = clean_header_to_chisq(s)
  /\ clean_header_to_chisq(str_replace(s, ".", "_")) = clean_header_to_chisq(s)

\* every header string is normalized idempotently
AllIdempotent == \A s \in HeaderStrings : Idempotent(s)

\* every header string is normalized whatever its case and separators
AllInsensitive == \A s \in HeaderStrings : Insensitive(s)

\* C24 (as stated): clean_header is idempotent, and "rs-Id", "RS.ID" and
\* "RSID" have one normal form.
C24_NormalizeExamples ==
  pc = "resolve" =>
    /\ AllIdempotent
    /\ \A s \in RunHeaders : Idempotent(s)
    /\ clean_header(S_rs_Id) = clean_header(S_RS_ID)
    /\ clean_header(S_RS_ID) = clean_header(S_RSID)

\* C24 (amended): clean_header is idempotent and does not depend on the case
\* of the letters nor on which of "-", "." and "_" separates the words:
\* "rs-Id", "RS.ID" and "RS_ID" have the normal form "RS_ID"; a separator is
\* kept as "_", so "RSID" has another normal form.
C24_NormalizeIdempotent ==
  pc = "resolve" =>
    /\ AllIdempotent
    /\ AllInsensitive
    /\ \A s \in RunHeaders : Idempotent(s)
    /\ \A f \in {S_rs_Id, S_RS_ID, S_RS_ID_underscore} :
         /\ clean_header(f) = S_RS_ID_underscore
         /\ clean_header_to_chisq(f) = S_RS_ID_underscore
    /\ clean_header(S_RSID) = S_RSID
    /\ clean_header_to_chisq(S_RSID) = S_RSID

\* column resolution has matched the header "Z-SCORE" of the file with the
\* option value "z.score" through their normal form
C24_Witness ==
  /\ pc = "sign"
  /\ args.signed_sumstats # None
  /\ args.signed_sumstats[1] = <<"z",".","s","c","o","r","e">>
  /\ <<"Z","-","S","C","O","R","E">> \in DOMAIN cname_translation
  /\ cname_translation[<<"Z","-","S","C","O","R","E">>] = "SIGNED_SUMSTAT"

\* process_n has returned
SampleSizeResolved == pc \in {"normalize", "reconcile", "write", "done"}

\* C25: no run stops with the 'Cannot determine N' error of process_n: when
\* schema validation has passed, process_n returns a table with an N column.
C25_CannotDetermineNUnreachable ==
  /\ ~(pc = "error" /\ err = E_CannotDetermineN)
  /\ SampleSizeResolved => "N" \in Range(dat.cols)

\* process_n has given the fixed N_cas + N_con to the rows of a file that
\* has an N_CAS column but neither an N nor an N_CON column
C25_Witness ==
  /\ pc = "normalize"
  /\ "N_CAS" \in Fields /\ "N_CON" \notin Fields /\ "N" \notin Fields
  /\ dat.rows # <<>>
  /\ \A i \in DOMAIN dat.rows : dat.rows[i]["N"] = Num(args.N_cas + args.N_con)

\* parse_dat has ended: it has returned the concatenated table or raised
ParseDatEnded ==
  \/ pc = "drop_duplicates"
  \/ pc = "error" /\ err \in {E_NotNumeric, E_StrAccessor, E_NoObjects}

\* what parse_dat does with the whole file as its single batch
SingleBatch ==
  parse_chunk([i \in DOMAIN file_rows |-> DictRestrict(file_rows[i], DOMAIN cname_translation)],
              chunk_columns, cname_translation, merge_alleles, args, ZeroDrops)

\* C26: when the whole file taken as one batch leaves at least one row,
\* parse_dat with the configured chunk size returns the same table (the same
\* rows in the same order) with the same value in every drop counter.
C26_ChunkSizeIndependent ==
  (ParseDatEnded /\ SingleBatch.err = "" /\ SingleBatch.kept # None) =>
    /\ pc = "drop_duplicates"
    /\ dat = SingleBatch.kept[1]
    /\ drops = SingleBatch.drops

\* the first of the rows that survived the filters of parse_dat with the SNP
\* of the surviving row i
FirstSurviving(i) ==
  RetainedRows[CHOOSE k \in DOMAIN RetainedRows :
                 /\ RetainedRows[k]["SNP"] = RetainedRows[i]["SNP"]
                 /\ \A l \in 1..(k - 1) : RetainedRows[l]["SNP"] # RetainedRows[i]["SNP"]]

============================================================================
